---- MODULE Spec2Model ----
(***************************************************************************)
(* A model of the route-generation engine of ridi-router: the frozen road  *)
(* graph (map_data/graph.rs), the itinerary cursor (router/itinerary.rs),  *)
(* the navigator's weight-driven depth-first search with discard memory    *)
(* (router/navigator.rs) and the generator's parallel fan-out              *)
(* (router/generator.rs); further down the graph under construction       *)
(* (insert_node, insert_way, insert_relation, tag interning), the readers  *)
(* that build it, the write-once graph slot, pack and unpack, the closest  *)
(* point lookup and the generator's choice among the clustered routes.     *)
(* The walker, the route, the point type and the proximity grid are not    *)
(* among the sources; they are modelled from the specification text        *)
(* (sections 3 and 4.3).                                                   *)
(***************************************************************************)
EXTENDS Integers, Sequences, FiniteSets, TLC

VARIABLES
    lines,                  \* MapDataGraph.lines of the frozen MAP_DATA_GRAPH
    navs,                   \* the navigators the generator has created
    itinerary,              \* Navigator.itinerary, per navigator
    weight_calcs,           \* Navigator.weight_calcs, per navigator
    route,                  \* Walker.route_walked, per navigator
    next_fork_choice_point, \* Walker's pending fork choice, per navigator
    discarded_fork_choices, \* Navigator.discarded_fork_choices, per navigator
    loop_counter,           \* loop_counter of generate_routes, per navigator
    result,                 \* the NavigationResult returned, or "Running"
    step_limit,             \* rules.basic.step_limit of the request
    log,                    \* last debug_logger record, per navigator
    cursor,                 \* history: the places in waypoints ++ <<finish>>
                            \* that next can stand for without a step back
    routes,                 \* the Vec collected by Generator::generate_routes
    gen_pc,                 \* where Generator::generate_routes stands
    map_data,               \* the MapDataGraph a reader is building
    call,                   \* the last call on map_data: operation, argument,
                            \* result (history)
    reader,                 \* the reader: its kind, its elements, its place
    slot,                   \* MAP_DATA_GRAPH, the process-wide OnceLock
    callers,                \* the threads that call init, unpack and get
    query,                  \* a get_closest_to_coords call and its result
    cluster,                \* the second half of Generator::generate_routes:
                            \* navigation results, labels, returned routes
    cache,                  \* a MapDataCache, the cache directory on disk
                            \* and the last call on the cache
    trip,                   \* a round-trip request and the itineraries
                            \* Generator::generate_itineraries makes of it
    weighing                \* a call of a weight function and its result

vars == <<lines, navs, itinerary, weight_calcs, route, next_fork_choice_point,
          discarded_fork_choices, loop_counter, result, step_limit, log, cursor,
          routes,
          gen_pc, map_data, call, reader, slot, callers, query, cluster,
          cache, trip, weighing>>

\* The variables of the navigator and the generator's fan-out.
nav_vars == <<lines, navs, itinerary, weight_calcs, route, next_fork_choice_point,
              discarded_fork_choices, loop_counter, result, step_limit, log, cursor,
              routes, gen_pc>>

\* The variables of the graph build, the graph slot, the lookup and the
\* clustering.
map_vars == <<map_data, call, reader, slot, callers, query, cluster>>

\* The variables of the cache, the round-trip itineraries and the weight
\* functions.
tool_vars == <<cache, trip, weighing>>

\* The parts of the program a specification does not run stay as they are.
NotStarted == "not started"

ToolsNotStarted ==
    /\ cache = NotStarted
    /\ trip = NotStarted
    /\ weighing = NotStarted

MapNotStarted ==
    /\ map_data = NotStarted
    /\ call = NotStarted
    /\ reader = NotStarted
    /\ slot = NotStarted
    /\ callers = NotStarted
    /\ query = NotStarted
    /\ cluster = NotStarted

NavNotStarted ==
    /\ lines = <<>>
    /\ navs = {}
    /\ itinerary = <<>>
    /\ weight_calcs = <<>>
    /\ route = <<>>
    /\ next_fork_choice_point = <<>>
    /\ discarded_fork_choices = <<>>
    /\ loop_counter = <<>>
    /\ result = <<>>
    /\ step_limit = 0
    /\ log = <<>>
    /\ cursor = <<>>
    /\ routes = <<>>
    /\ gen_pc = NotStarted

\* Option::None for point references (no point has id 0).
None == 0

\* WeightCalcResult::DoNotUse; UseWithWeight(w) is the number w in 0..255.
DoNotUse == -1

(***************************************************************************)
(* Bounds of the model.                                                    *)
(***************************************************************************)
\* Stand-in for the 1000000 iterations hard-coded in generate_routes.
LoopLimit == 40
\* Longest walk between two forks the walker is followed for.
MaxWalk == 12

(***************************************************************************)
(* The graph.                                                              *)
(***************************************************************************)
Way(id, point_ids, direction, highway) ==
    [id |-> id, point_ids |-> point_ids, direction |-> direction, highway |-> highway]

\* The canonical test graph: points 1..9, 11, 12 at (i.0, i.0).
test_dataset_1 ==
    << Way(1234, <<1, 2, 3, 4>>, "BothWays", "primary"),
       Way(5367, <<5, 3, 6, 7>>, "BothWays", "primary"),
       Way(489,  <<4, 8, 9>>,    "BothWays", "primary"),
       Way(68,   <<6, 8>>,       "BothWays", "primary"),
       Way(1112, <<11, 12>>,     "BothWays", "primary") >>

\* A road without any junction, and the disconnected way 11-12.
dataset_path ==
    << Way(123,  <<1, 2, 3>>, "BothWays", "primary"),
       Way(1112, <<11, 12>>,  "BothWays", "primary") >>

\* The test graph with one-way streets: 3->6 and 8->6 cannot be driven
\* from 6, 5->3 cannot be driven from 3, and 4-8-9 is a roundabout way.
dataset_one_way ==
    << Way(1234, <<1, 2, 3, 4>>, "BothWays", "primary"),
       Way(53,   <<5, 3>>,       "Roundabout", "track"),
       Way(36,   <<3, 6>>,       "OneWay",   "primary"),
       Way(67,   <<6, 7>>,       "BothWays", "primary"),
       Way(489,  <<4, 8, 9>>,    "Roundabout", "primary"),
       Way(86,   <<8, 6>>,       "OneWay",   "primary"),
       Way(1112, <<11, 12>>,     "BothWays", "primary") >>

\* A tree: junction 3 leads to 5 and to junction 4, whose branches 6 and 7
\* are dead ends.
dataset_tree ==
    << Way(12346, <<1, 2, 3, 4, 6>>, "BothWays", "primary"),
       Way(35,    <<3, 5>>,          "BothWays", "primary"),
       Way(47,    <<4, 7>>,          "BothWays", "track") >>

\* The lines insert_way adds for one admissible way whose points all exist:
\* one line per consecutive pair of point ids, in the way's direction.
way_lines(way) ==
    [i \in 1..(Len(way.point_ids) - 1) |->
        [points    |-> <<way.point_ids[i], way.point_ids[i + 1]>>,
         direction |-> way.direction,
         highway   |-> way.highway]]

RECURSIVE graph_from_test_dataset(_)
graph_from_test_dataset(ways) ==
    IF Len(ways) = 0 THEN <<>>
    ELSE way_lines(Head(ways)) \o graph_from_test_dataset(Tail(ways))

\* is_one_way without the roundabouts.
is_one_way_without_roundabout(line) == line.direction = "OneWay"

is_one_way(line) == line.direction \in {"OneWay", "Roundabout"}

\* MapDataPoint.lines: the indices of the lines that end at point p, in the
\* order insert_way pushed them.
point_lines(ls, p) ==
    SelectSeq([i \in 1..Len(ls) |-> i],
              LAMBDA l: p \in {ls[l].points[1], ls[l].points[2]})

get_adjacent(ls, center_point) ==
    LET inc == point_lines(ls, center_point)
    IN [k \in 1..Len(inc) |->
          [line      |-> inc[k],
           end_point |-> IF ls[inc[k]].points[1] = center_point
                         THEN ls[inc[k]].points[2]
                         ELSE ls[inc[k]].points[1]]]

is_junction(ls, p) == Len(point_lines(ls, p)) >= 3

Abs(x) == IF x < 0 THEN -x ELSE x

\* Great-circle distance between two points.  Every point i lies at
\* (i.0, i.0), so the distance grows with |a - b|; the unit is the
\* distance between two neighbouring ids.
distance_between(a, b) == Abs(a - b)

(***************************************************************************)
(* Itinerary (router/itinerary.rs).                                        *)
(***************************************************************************)
\* Itinerary::new
Itinerary_new(start, finish, waypoints, waypoint_radius) ==
    [start           |-> start,
     finish          |-> finish,
     waypoints       |-> waypoints,
     next            |-> IF Len(waypoints) > 0 THEN waypoints[1] ELSE finish,
     waypoint_radius |-> waypoint_radius]

\* waypoints.iter().position(|w| w == next): the first index, 0 for None.
position(waypoints, p) ==
    IF \E i \in 1..Len(waypoints) : waypoints[i] = p
    THEN CHOOSE i \in 1..Len(waypoints) :
            /\ waypoints[i] = p
            /\ \A j \in 1..(i - 1) : waypoints[j] # p
    ELSE 0

\* check_set_next with the radius looked at before the finish.
check_set_next_radius_first(it, current) ==
    IF distance_between(current, it.next) <= it.waypoint_radius
    THEN LET idx == position(it.waypoints, it.next)
         IN IF idx # 0
            THEN [it EXCEPT !.next = IF idx + 1 <= Len(it.waypoints)
                                     THEN it.waypoints[idx + 1]
                                     ELSE it.finish]
            ELSE [it EXCEPT !.next = it.finish]
    ELSE IF distance_between(current, it.finish) < distance_between(current, it.next)
    THEN [it EXCEPT !.next = it.finish]
    ELSE it

\* Itinerary::check_set_next, as the itinerary it leaves behind.
check_set_next(it, current) ==
    IF distance_between(current, it.finish) < distance_between(current, it.next)
    THEN [it EXCEPT !.next = it.finish]
    ELSE IF distance_between(current, it.next) <= it.waypoint_radius
    THEN LET idx == position(it.waypoints, it.next)
         IN IF idx # 0
            THEN [it EXCEPT !.next = IF idx + 1 <= Len(it.waypoints)
                                     THEN it.waypoints[idx + 1]
                                     ELSE it.finish]
            ELSE [it EXCEPT !.next = it.finish]
    ELSE it

(***************************************************************************)
(* Walker and route (section 4.3 of the specification).                    *)
(***************************************************************************)
\* Walker::get_last_point: the end of the route, the start when it is empty.
get_last_point(start, r) == IF Len(r) = 0 THEN start ELSE r[Len(r)].end_point

\* The outgoing segments of the walker's point: not back over the line it
\* came by, and not against a one-way or roundabout line.
get_fork_segments(ls, start, r) ==
    SelectSeq(get_adjacent(ls, get_last_point(start, r)),
              LAMBDA seg:
                /\ (Len(r) > 0 => seg.line # r[Len(r)].line)
                /\ (is_one_way(ls[seg.line])
                      => ls[seg.line].points[2] = seg.end_point))

\* Walker::move_forward_to_next_fork: walk until the finish, a fork or a
\* dead end; a pending fork choice is consumed by the first step.
RECURSIVE move_forward_to_next_fork(_, _, _, _, _, _)
move_forward_to_next_fork(ls, start, end, r, choice, fuel) ==
    LET point == get_last_point(start, r)
        avail == get_fork_segments(ls, start, r)
        cand  == IF choice # None
                 THEN SelectSeq(avail, LAMBDA seg: seg.end_point = choice)
                 ELSE avail
    IN IF point = end
       THEN [move |-> "Finish", route |-> r, choices |-> <<>>]
       ELSE IF fuel = 0
       THEN [move |-> "Endless", route |-> r, choices |-> <<>>]
       ELSE IF Len(avail) > 1 /\ choice = None
       THEN [move |-> "Fork", route |-> r, choices |-> avail]
       ELSE IF Len(cand) = 0
       THEN [move |-> "DeadEnd", route |-> r, choices |-> <<>>]
       ELSE move_forward_to_next_fork(ls, start, end, Append(r, cand[1]),
                                      None, fuel - 1)

\* Route::get_junction_before_last_segment, as an index into the route
\* (0 for None): the latest segment before the last one that ends at a
\* junction.
get_junction_before_last_segment(ls, r) ==
    LET js == {i \in 1..(Len(r) - 1) : is_junction(ls, r[i].end_point)}
    IN IF js = {} THEN 0 ELSE CHOOSE i \in js : \A j \in js : j <= i

\* Walker::move_backwards_to_prev_fork: the route cut back to the most
\* recent junction; unchanged when there is none.
move_backwards_to_prev_fork(ls, r) ==
    LET j == get_junction_before_last_segment(ls, r)
    IN IF j = 0 THEN r ELSE SubSeq(r, 1, j)

\* SegmentList::exclude_segments_where_points_in
exclude_segments_where_points_in(segments, points) ==
    SelectSeq(segments, LAMBDA seg: seg.end_point \notin points)

(***************************************************************************)
(* Weight functions: the WeightCalc values handed to Navigator::new.       *)
(***************************************************************************)
\* The point the weight functions of the navigator tests call prev_point:
\* the end of the route, else the itinerary's start or finish.
prev_point(it, r, fallback) ==
    IF Len(r) > 0 THEN r[Len(r)].end_point ELSE fallback

\* One WeightCalc applied to a WeightCalcInput (route r, itinerary it,
\* current_fork_segment seg).
weight_calc(kind, ls, it, r, seg) ==
    LET e == seg.end_point
    IN CASE kind = "pick_best_6" ->
              IF prev_point(it, r, it.start) = 3 /\ e = 6 THEN 10 ELSE 1
         [] kind = "pick_best_4" ->
              IF prev_point(it, r, it.finish) = 3 /\ e = 4 THEN 10 ELSE 1
         [] kind = "dead_end_next_best" ->
              IF prev_point(it, r, it.finish) = 3 /\ e = 5 THEN 10
              ELSE IF prev_point(it, r, it.finish) = 3 /\ e = 6 THEN 5
              ELSE IF prev_point(it, r, it.finish) = 6 /\ e = 7 THEN 10
              ELSE 1
         [] kind = "all_one" -> 1
         [] kind = "do_not_use_7" -> IF e = 7 THEN DoNotUse ELSE 1
         [] kind = "weight_sum_1" ->
              IF prev_point(it, r, it.finish) = 3 /\ e = 6 THEN 10 ELSE 6
         [] kind = "weight_sum_2" ->
              IF prev_point(it, r, it.finish) = 3 /\ e = 6 THEN 1 ELSE 6
         [] kind = "toward_next" ->
              IF distance_between(e, it.next)
                   < distance_between(get_last_point(it.start, r), it.next)
              THEN 20 ELSE 2
         [] kind = "do_not_use_track" ->
              IF ls[seg.line].highway = "track" THEN DoNotUse ELSE 0
         [] kind = "all_zero" -> 0

\* fork_weight_calc_results of generate_routes: every weight function
\* applied to one fork choice.
fork_weight_calc_results(wcs, ls, it, r, seg) ==
    [k \in 1..Len(wcs) |-> weight_calc(wcs[k], ls, it, r, seg)]

(***************************************************************************)
(* ForkWeights and DiscardedForkChoices (router/navigator.rs).             *)
(***************************************************************************)
RECURSIVE weights_sum(_)
weights_sum(weights) ==
    IF Len(weights) = 0 THEN 0
    ELSE (IF Head(weights) = DoNotUse THEN 0 ELSE Head(weights))
         + weights_sum(Tail(weights))

\* ForkWeights::new: the empty weight_list.
ForkWeights_new == [p \in {} |-> 0]

\* add_calc_result that counts the first weight function only.
add_calc_result_first_only(weight_list, choice_point_ref, weights) ==
    IF \A k \in DOMAIN weights : weights[k] # DoNotUse
    THEN LET existing_weight == IF choice_point_ref \in DOMAIN weight_list
                                THEN weight_list[choice_point_ref]
                                ELSE 0
         IN (choice_point_ref :> (existing_weight + weights[1])) @@ weight_list
    ELSE weight_list

\* add_calc_result that counts a DoNotUse as weight 0.
add_calc_result_keeps_do_not_use(weight_list, choice_point_ref, weights) ==
    LET existing_weight == IF choice_point_ref \in DOMAIN weight_list
                           THEN weight_list[choice_point_ref]
                           ELSE 0
    IN (choice_point_ref :> (existing_weight + weights_sum(weights))) @@ weight_list

\* ForkWeights::add_calc_result
add_calc_result(weight_list, choice_point_ref, weights) ==
    IF \A k \in DOMAIN weights : weights[k] # DoNotUse
    THEN LET existing_weight == IF choice_point_ref \in DOMAIN weight_list
                                THEN weight_list[choice_point_ref]
                                ELSE 0
         IN (choice_point_ref :> (existing_weight + weights_sum(weights)))
               @@ weight_list
    ELSE weight_list

\* ForkWeights::get_choice_id_by_index_from_heaviest(0): the first entry of
\* the weight_list sorted by descending weight.  The sort is stable over the
\* iteration order of a HashMap, which is arbitrary, so every choice of
\* greatest weight is a possible result; the empty set stands for None.
get_choice_id_by_index_from_heaviest(weight_list) ==
    {c \in DOMAIN weight_list :
        \A d \in DOMAIN weight_list : weight_list[d] <= weight_list[c]}

\* DiscardedForkChoices::new
DiscardedForkChoices_new == [p \in {} |-> {}]

\* add_discarded_choice that forgets the choices discarded before.
add_discarded_choice_overwrite(choices, point_ref, choice_point_ref) ==
    IF point_ref \in DOMAIN choices
    THEN [choices EXCEPT ![point_ref] = {choice_point_ref}]
    ELSE (point_ref :> {choice_point_ref}) @@ choices

\* DiscardedForkChoices::add_discarded_choice
add_discarded_choice(choices, point_ref, choice_point_ref) ==
    IF point_ref \in DOMAIN choices
    THEN [choices EXCEPT ![point_ref] = @ \cup {choice_point_ref}]
    ELSE (point_ref :> {choice_point_ref}) @@ choices

\* DiscardedForkChoices::get_discarded_choices_for_point, with None mapped
\* to the empty list as generate_routes does.
get_discarded_choices_for_point(choices, point_ref) ==
    IF point_ref \in DOMAIN choices THEN choices[point_ref] ELSE {}

\* The fold of generate_routes that builds the ForkWeights of a fork.
RECURSIVE fork_weights_fold(_, _, _, _, _, _)
fork_weights_fold(fork_weights, segs, wcs, ls, it, r) ==
    IF Len(segs) = 0 THEN fork_weights
    ELSE fork_weights_fold(
            add_calc_result(fork_weights, Head(segs).end_point,
                            fork_weight_calc_results(wcs, ls, it, r, Head(segs))),
            Tail(segs), wcs, ls, it, r)

(***************************************************************************)
(* Navigator::generate_routes, one iteration of its main loop.  A          *)
(* navigator is the record of its fields and of the locals of the loop.    *)
(***************************************************************************)
\* The debug_logger record of an iteration.
LogEntry(move, point, choices, results, weights, chosen) ==
    [move |-> move, point |-> point, choices |-> choices,
     results |-> results, weights |-> weights, chosen |-> chosen]

NoLog == LogEntry("None", None, <<>>, <<>>, ForkWeights_new, None)

\* Navigator::new
Navigator_new(it, wcs) ==
    [itinerary    |-> it,
     weight_calcs |-> wcs,
     route        |-> <<>>,
     choice       |-> None,
     discarded    |-> DiscardedForkChoices_new,
     loop_counter |-> 0,
     result       |-> "Running",
     log          |-> NoLog]

\* The test that ends an iteration: Stopped once the counter is at the limit.
loop_end(nav) ==
    IF nav.loop_counter >= LoopLimit THEN [nav EXCEPT !.result = "Stopped"] ELSE nav

\* The Fork branch: exclude the discarded choices, move the itinerary's
\* cursor, sum the weights, then either discard and set the heaviest choice
\* or move back (and return Stuck when no junction is left before the last
\* segment).  The result is the set of navigators the iteration can end in.
on_fork(ls, nav, mr) ==
    LET last_point   == get_last_point(nav.itinerary.start, mr.route)
        fork_choices == exclude_segments_where_points_in(
                            mr.choices,
                            get_discarded_choices_for_point(nav.discarded, last_point))
        it           == check_set_next(nav.itinerary, last_point)
        results      == [k \in 1..Len(fork_choices) |->
                            fork_weight_calc_results(nav.weight_calcs, ls, it,
                                                     mr.route, fork_choices[k])]
        fork_weights == fork_weights_fold(ForkWeights_new, fork_choices,
                                          nav.weight_calcs, ls, it, mr.route)
        heaviest     == get_choice_id_by_index_from_heaviest(fork_weights)
        back         == move_backwards_to_prev_fork(ls, mr.route)
    IN IF heaviest # {}
       THEN { loop_end([nav EXCEPT
                  !.itinerary = it,
                  !.route     = mr.route,
                  !.discarded = add_discarded_choice(@, last_point, chosen_fork_point),
                  !.choice    = chosen_fork_point,
                  !.log       = LogEntry("Fork", last_point, fork_choices, results,
                                         fork_weights, chosen_fork_point)])
              : chosen_fork_point \in heaviest }
       ELSE LET moved == [nav EXCEPT
                            !.itinerary = it,
                            !.route     = back,
                            !.choice    = None,
                            !.log       = LogEntry("ForkBack", last_point,
                                                   fork_choices, results,
                                                   fork_weights, None)]
            IN { IF get_junction_before_last_segment(ls, back) = 0
                 THEN [moved EXCEPT !.result = "Stuck"]
                 ELSE loop_end(moved) }

\* One iteration of the loop of generate_routes.
generate_routes_iteration(ls, nav0) ==
    LET nav == [nav0 EXCEPT !.loop_counter = @ + 1]
        mr  == move_forward_to_next_fork(ls, nav.itinerary.start,
                                         nav.itinerary.finish, nav.route,
                                         nav.choice, MaxWalk)
    IN CASE mr.move = "Finish" ->
              { [nav EXCEPT !.route = mr.route, !.choice = None,
                            !.result = "Finished",
                            !.log = LogEntry("Finish", None, <<>>, <<>>,
                                             ForkWeights_new, None)] }
         [] mr.move = "Fork" -> on_fork(ls, nav, mr)
         [] mr.move = "DeadEnd" ->
              { loop_end([nav EXCEPT
                  !.route  = move_backwards_to_prev_fork(ls, mr.route),
                  !.choice = None,
                  !.log    = LogEntry("DeadEnd",
                                      get_last_point(nav.itinerary.start, mr.route),
                                      <<>>, <<>>, ForkWeights_new, None)]) }
         [] OTHER -> {}

(***************************************************************************)
(* The state of the program.                                               *)
(***************************************************************************)
\* One discard memory for all navigators.
shared_discarded(all, n) == all[1]

\* The discard memory navigator n reads and writes: its own field.
navigator_discarded(all, n) == all[n]

\* Navigator n as a record.
navigator(n) ==
    [itinerary    |-> itinerary[n],
     weight_calcs |-> weight_calcs[n],
     route        |-> route[n],
     choice       |-> next_fork_choice_point[n],
     discarded    |-> navigator_discarded(discarded_fork_choices, n),
     loop_counter |-> loop_counter[n],
     result       |-> result[n],
     log          |-> log[n]]

\* waypoints ++ <<finish>>: the targets of an itinerary in their order.
targets(it) == Append(it.waypoints, it.finish)

\* The history variable cursor after next has gone from it.next to nxt.
cursor_after(cur, it, nxt) ==
    IF nxt = it.next THEN cur
    ELSE {j \in 1..Len(targets(it)) :
            targets(it)[j] = nxt /\ \E i \in cur : i < j}

\* Navigator n goes through one iteration that ends in nav.
Install(n, nav) ==
    /\ itinerary' = [itinerary EXCEPT ![n] = nav.itinerary]
    /\ route' = [route EXCEPT ![n] = nav.route]
    /\ next_fork_choice_point' = [next_fork_choice_point EXCEPT ![n] = nav.choice]
    /\ discarded_fork_choices' = [discarded_fork_choices EXCEPT ![n] = nav.discarded]
    /\ loop_counter' = [loop_counter EXCEPT ![n] = nav.loop_counter]
    /\ result' = [result EXCEPT ![n] = nav.result]
    /\ log' = [log EXCEPT ![n] = nav.log]
    /\ cursor' = [cursor EXCEPT ![n] =
                    cursor_after(@, itinerary[n], nav.itinerary.next)]
    /\ UNCHANGED <<lines, navs, weight_calcs, step_limit, routes, gen_pc>>
    /\ UNCHANGED <<map_vars, tool_vars>>

Iterate(n, branch) ==
    /\ gen_pc = "navigate"
    /\ result[n] = "Running"
    /\ \E nav \in generate_routes_iteration(lines, navigator(n)) :
          /\ nav.log.move = branch
          /\ Install(n, nav)

\* move_result == Ok(Finish): return Finished(route).
NavFinish(n) == Iterate(n, "Finish")

\* move_result == Ok(Fork(..)) and a choice is left.
NavForkChoose(n) == Iterate(n, "Fork")

\* move_result == Ok(Fork(..)) and no choice is left.
NavForkBack(n) == Iterate(n, "ForkBack")

\* move_result == Ok(DeadEnd).
NavDeadEnd(n) == Iterate(n, "DeadEnd")

(***************************************************************************)
(* Generator::generate_routes: the navigators run in parallel; the results *)
(* are collected in the order of the itineraries, without the Stuck ones.  *)
(***************************************************************************)
RECURSIVE filter_map_routes(_, _, _)
filter_map_routes(res, rts, n) ==
    IF n \notin DOMAIN res THEN <<>>
    ELSE (IF res[n] = "Stuck" THEN <<>> ELSE <<rts[n]>>)
         \o filter_map_routes(res, rts, n + 1)

Collect ==
    /\ gen_pc = "navigate"
    /\ \A n \in navs : result[n] # "Running"
    /\ routes' = filter_map_routes(result, route, 1)
    /\ gen_pc' = "collected"
    /\ UNCHANGED <<lines, navs, itinerary, weight_calcs, route,
                   next_fork_choice_point, discarded_fork_choices,
                   loop_counter, result, step_limit, log, cursor>>
    /\ UNCHANGED <<map_vars, tool_vars>>

(***************************************************************************)
(* Requests.                                                               *)
(***************************************************************************)
Datasets == {test_dataset_1, dataset_path, dataset_one_way, dataset_tree}

WeightCalcSets ==
    { <<"pick_best_6">>, <<"pick_best_4">>, <<"dead_end_next_best">>,
      <<"all_one">>, <<"do_not_use_7">>, <<"weight_sum_1", "weight_sum_2">>,
      <<"toward_next", "all_one">>, <<"all_zero">>,
      <<"do_not_use_7", "dead_end_next_best">>, <<"pick_best_4", "do_not_use_track">> }

\* (finish, waypoints, waypoint_radius) of the itineraries, all from point 1.
Targets ==
    { <<7, <<>>, 0>>, <<11, <<>>, 0>>, <<5, <<>>, 0>>, <<9, <<>>, 0>>,
      <<7, <<4, 9>>, 1>>, <<7, <<8, 5>>, 1>>, <<7, <<2, 4, 9>>, 2>> }

StepLimits == {3, 30000}

\* Generator::generate_routes up to the point where the navigators start:
\* Navigator::new for every itinerary of its, with the same weight functions.
GeneratorInit(ways, its, wcs, sl) ==
    /\ lines = graph_from_test_dataset(ways)
    /\ navs = DOMAIN its
    /\ itinerary = its
    /\ weight_calcs = [n \in DOMAIN its |-> Navigator_new(its[n], wcs).weight_calcs]
    /\ route = [n \in DOMAIN its |-> Navigator_new(its[n], wcs).route]
    /\ next_fork_choice_point = [n \in DOMAIN its |-> Navigator_new(its[n], wcs).choice]
    /\ discarded_fork_choices = [n \in DOMAIN its |-> Navigator_new(its[n], wcs).discarded]
    /\ loop_counter = [n \in DOMAIN its |-> Navigator_new(its[n], wcs).loop_counter]
    /\ result = [n \in DOMAIN its |-> Navigator_new(its[n], wcs).result]
    /\ step_limit = sl
    /\ log = [n \in DOMAIN its |-> Navigator_new(its[n], wcs).log]
    /\ cursor = [n \in DOMAIN its |-> {1}]
    /\ routes = <<>>
    /\ gen_pc = "navigate"
    /\ MapNotStarted
    /\ ToolsNotStarted

\* One navigator, as in the navigator's tests.
Init ==
    \E ways \in Datasets, t \in Targets, wcs \in WeightCalcSets, sl \in StepLimits :
        GeneratorInit(ways, <<Itinerary_new(1, t[1], t[2], t[3])>>, wcs, sl)

Next ==
    \/ \E n \in navs : NavFinish(n)
    \/ \E n \in navs : NavForkChoose(n)
    \/ \E n \in navs : NavForkBack(n)
    \/ \E n \in navs : NavDeadEnd(n)
    \/ Collect

Spec == Init /\ [][Next]_vars

(***************************************************************************)
(* The itinerary on its own: check_set_next called with any point.         *)
(***************************************************************************)
MaxWaypoints == 3

ItineraryPoints == 1..4

RECURSIVE seqs_up_to(_, _)
seqs_up_to(S, k) ==
    IF k = 0 THEN {<<>>}
    ELSE seqs_up_to(S, k - 1)
         \cup {Append(w, p) : w \in {v \in seqs_up_to(S, k - 1) : Len(v) = k - 1},
                              p \in S}

InitItinerary ==
    \E finish \in ItineraryPoints, wps \in seqs_up_to(ItineraryPoints, MaxWaypoints),
       radius \in {0, 1} :
        GeneratorInit(dataset_path, <<Itinerary_new(1, finish, wps, radius)>>,
                      <<"all_one">>, 30000)

CheckSetNext(n, current) ==
    /\ itinerary' = [itinerary EXCEPT ![n] = check_set_next(@, current)]
    /\ cursor' = [cursor EXCEPT ![n] =
                    cursor_after(@, itinerary[n],
                                 check_set_next(itinerary[n], current).next)]
    /\ log' = [log EXCEPT ![n] =
                 LogEntry("CheckSetNext", current, <<>>, <<>>, ForkWeights_new, None)]
    /\ UNCHANGED <<lines, navs, weight_calcs, route, next_fork_choice_point,
                   discarded_fork_choices, loop_counter, result, step_limit,
                   routes, gen_pc>>
    /\ UNCHANGED <<map_vars, tool_vars>>

NextItinerary == \E n \in navs, current \in ItineraryPoints : CheckSetNext(n, current)

SpecItinerary == InitItinerary /\ [][NextItinerary]_vars

(***************************************************************************)
(* The generator with two itineraries whose navigators run in parallel.    *)
(***************************************************************************)
ParallelWaypoints == { <<>>, <<4, 9>>, <<8, 5>> }

InitParallel ==
    \E ways \in {test_dataset_1, dataset_tree}, finish \in {7},
       w1 \in ParallelWaypoints, w2 \in ParallelWaypoints,
       wcs \in { <<"toward_next", "all_one">>, <<"dead_end_next_best">>,
                 <<"pick_best_4", "do_not_use_track">> } :
        GeneratorInit(ways, <<Itinerary_new(1, finish, w1, 1),
                              Itinerary_new(1, finish, w2, 1)>>, wcs, 30000)

SpecParallel == InitParallel /\ [][Next]_vars

\* Every result generate_routes can return for one navigator run on its own.
RECURSIVE navigation_results(_, _)
navigation_results(ls, nav) ==
    IF nav.result # "Running" THEN {<<nav.result, nav.route>>}
    ELSE UNION {navigation_results(ls, nxt) :
                    nxt \in generate_routes_iteration(ls, nav)}

(***************************************************************************)
(* Properties.                                                             *)
(***************************************************************************)
\* The walker always comes to a finish, a fork or a dead end.
WalkerHalts ==
    \A n \in navs :
        result[n] = "Running" =>
            generate_routes_iteration(lines, navigator(n)) # {}

\* route_matches_ids of the tests: the ids of the end-points of a route.
point_ids(r) == [k \in 1..Len(r) |-> r[k].end_point]

TestGraph == lines = graph_from_test_dataset(test_dataset_1)

\* Navigator n runs the test request from 1 to finish with weights wcs.
TestRun(n, finish, wcs) ==
    /\ TestGraph
    /\ itinerary[n].start = 1
    /\ itinerary[n].finish = finish
    /\ itinerary[n].waypoints = <<>>
    /\ weight_calcs[n] = wcs

\* The sum of the weights in a list of results without DoNotUse.
RECURSIVE total(_, _)
total(ws, k) == IF k = 0 THEN 0 ELSE ws[k] + total(ws, k - 1)

Usable(ws) == \A k \in DOMAIN ws : ws[k] # DoNotUse

\* The index of the chosen end-point in the choices of a log record.
ChosenIdx(l) == CHOOSE k \in DOMAIN l.choices : l.choices[k].end_point = l.chosen

\* C1: at a fork the navigator takes a choice whose weights, summed over
\* all weight functions, are the greatest among the surviving choices; on
\* the test graph from 1 to 7 the route is [2,3,6,7] when 3->6 scores
\* highest and [2,3,4,8,6,7] when the sum of two functions favours 3->4.
C1_PicksGreatestSum ==
    \A n \in navs :
        /\ log[n].move = "Fork" =>
              \A k \in DOMAIN log[n].choices :
                  Usable(log[n].results[k]) =>
                      total(log[n].results[k], Len(log[n].results[k]))
                        <= total(log[n].results[ChosenIdx(log[n])],
                                 Len(log[n].results[ChosenIdx(log[n])]))
        /\ (TestRun(n, 7, <<"pick_best_6">>) /\ result[n] # "Running") =>
              (result[n] = "Finished" /\ point_ids(route[n]) = <<2, 3, 6, 7>>)
        /\ (TestRun(n, 7, <<"pick_best_4">>) /\ result[n] # "Running") =>
              (result[n] = "Finished" /\ point_ids(route[n]) = <<2, 3, 4, 8, 6, 7>>)
        /\ (TestRun(n, 7, <<"weight_sum_1", "weight_sum_2">>) /\ result[n] # "Running") =>
              (result[n] = "Finished" /\ point_ids(route[n]) = <<2, 3, 4, 8, 6, 7>>)

C1_Witness ==
    \E n \in navs :
        /\ TestRun(n, 7, <<"weight_sum_1", "weight_sum_2">>)
        /\ result[n] = "Finished"
        /\ point_ids(route[n]) = <<2, 3, 4, 8, 6, 7>>

\* C2: a fork choice with a DoNotUse from any weight function is never
\* the chosen one, whatever the other functions return; on the test graph,
\* where the finish 7 can only be entered by a fork choice at 6, a weight
\* function that marks 7 DoNotUse keeps the navigator from Finished.
C2_DoNotUseNeverTaken ==
    \A n \in navs :
        /\ log[n].move = "Fork" => Usable(log[n].results[ChosenIdx(log[n])])
        /\ (/\ TestGraph
            /\ itinerary[n].finish = 7
            /\ \E k \in DOMAIN weight_calcs[n] : weight_calcs[n][k] = "do_not_use_7")
              => result[n] # "Finished"

C2_Witness ==
    \E n \in navs :
        /\ TestRun(n, 7, <<"do_not_use_7", "dead_end_next_best">>)
        /\ log[n].move = "Fork"
        /\ log[n].point = 6
        /\ \E k \in DOMAIN log[n].choices :
              /\ log[n].choices[k].end_point = 7
              /\ log[n].results[k] = <<DoNotUse, 10>>
        /\ log[n].chosen = 8

RECURSIVE connected(_, _)
connected(ls, S) ==
    LET T == S \cup {ls[l].points[1] : l \in {m \in DOMAIN ls : ls[m].points[2] \in S}}
               \cup {ls[l].points[2] : l \in {m \in DOMAIN ls : ls[m].points[1] \in S}}
    IN IF T = S THEN S ELSE connected(ls, T)

PositiveWeights ==
    { <<"pick_best_6">>, <<"pick_best_4">>, <<"dead_end_next_best">>,
      <<"all_one">>, <<"weight_sum_1", "weight_sum_2">>, <<"toward_next", "all_one">> }

\* C4: with a finish that is not connected to the start and weight
\* functions that give every choice a positive weight, generate_routes
\* returns Stuck.
C4_UnreachableIsStuck ==
    \A n \in navs :
        (/\ itinerary[n].finish \notin connected(lines, {itinerary[n].start})
         /\ weight_calcs[n] \in PositiveWeights
         /\ result[n] # "Running")
           => result[n] = "Stuck"

\* C5: generate_routes goes through at most step_limit iterations of its
\* main loop, step_limit being the value of the rules.
C5_WithinStepLimit == \A n \in navs : loop_counter[n] <= step_limit

\* C6: the discard set of every fork point only grows; a chosen end-point
\* was not in the fork's discard set, is in it before the walker moves, and
\* no choice offered at the fork was in the set.
C6_DiscardGrowsNoRepeat ==
    [][\A n \in navs :
          /\ \A p \in DOMAIN discarded_fork_choices[n] :
                /\ p \in DOMAIN discarded_fork_choices'[n]
                /\ discarded_fork_choices[n][p] \subseteq discarded_fork_choices'[n][p]
          /\ (log'[n].move = "Fork" /\ loop_counter'[n] # loop_counter[n]) =>
                /\ (log'[n].point \in DOMAIN discarded_fork_choices[n]
                      => /\ log'[n].chosen \notin discarded_fork_choices[n][log'[n].point]
                         /\ \A k \in DOMAIN log'[n].choices :
                               log'[n].choices[k].end_point
                                  \notin discarded_fork_choices[n][log'[n].point])
                /\ log'[n].point \in DOMAIN discarded_fork_choices'[n]
                /\ log'[n].chosen \in discarded_fork_choices'[n][log'[n].point]
                /\ get_last_point(itinerary[n].start, route'[n]) = log'[n].point
                /\ next_fork_choice_point'[n] = log'[n].chosen]_vars

C6_Witness ==
    \E n \in navs : \E p \in DOMAIN discarded_fork_choices[n] :
        /\ Cardinality(discarded_fork_choices[n][p]) >= 2
        /\ log[n].move = "Fork"
        /\ log[n].point = p

\* A route is a path from start: every segment's line joins the point
\* before it to its end-point, in the line's direction when it is one-way
\* or a roundabout.
ValidPath(ls, start, r) ==
    \A k \in DOMAIN r :
        LET from == IF k = 1 THEN start ELSE r[k - 1].end_point
            ln   == ls[r[k].line]
        IN /\ from # r[k].end_point
           /\ {from, r[k].end_point} = {ln.points[1], ln.points[2]}
           /\ (ln.direction # "BothWays" => ln.points = <<from, r[k].end_point>>)

\* C7: the walker's route, after every move and in every result, is a valid
\* path from the itinerary's start, and so is every collected route.
C7_RouteIsValidPath ==
    /\ \A n \in navs : ValidPath(lines, itinerary[n].start, route[n])
    /\ \A k \in DOMAIN routes : \E n \in navs : ValidPath(lines, itinerary[n].start, routes[k])

C7_Witness ==
    \E n \in navs :
        /\ lines = graph_from_test_dataset(dataset_one_way)
        /\ result[n] = "Finished"
        /\ gen_pc = "collected"
        /\ routes = <<route[n]>>
        /\ \E k \in DOMAIN route[n] : lines[route[n][k].line].direction = "Roundabout"
        /\ \E k \in DOMAIN route[n] : lines[route[n][k].line].direction = "OneWay"

\* C8: next is the finish or a waypoint that has not been visited: it
\* starts at the first target and never steps back in the list of targets.
C8_NextNotYetVisited ==
    \A n \in navs :
        /\ cursor[n] # {}
        /\ \E j \in cursor[n] : targets(itinerary[n])[j] = itinerary[n].next

\* What the claim C9 says next is after check_set_next(current).
C9_next(it, current) ==
    IF distance_between(current, it.finish) < distance_between(current, it.next)
    THEN it.finish
    ELSE IF distance_between(current, it.next) <= it.waypoint_radius
         THEN IF \E i \in DOMAIN it.waypoints :
                    it.waypoints[i] = it.next /\ i < Len(it.waypoints)
              THEN it.waypoints[1 + CHOOSE i \in DOMAIN it.waypoints :
                        /\ it.waypoints[i] = it.next
                        /\ \A j \in 1..(i - 1) : it.waypoints[j] # it.next]
              ELSE it.finish
         ELSE it.next

\* C9: check_set_next sets next to the finish when current is closer to
\* the finish than to next, else to the waypoint after next when current
\* is within the radius of next, else leaves it; the navigator calls it at
\* every fork with the fork point, before the weights are computed, and
\* nowhere else.
C9_CheckSetNext ==
    [][\A n \in navs :
          loop_counter'[n] # loop_counter[n] =>
             IF log'[n].move \in {"Fork", "ForkBack"}
             THEN /\ itinerary'[n] =
                       [itinerary[n] EXCEPT !.next = C9_next(itinerary[n], log'[n].point)]
                  /\ log'[n].move = "Fork" =>
                        \A k \in DOMAIN log'[n].choices :
                           log'[n].results[k] =
                              fork_weight_calc_results(
                                  weight_calcs[n], lines, itinerary'[n],
                                  route'[n], log'[n].choices[k])
             ELSE itinerary'[n] = itinerary[n]]_vars

C9_Witness ==
    \E n \in navs :
        /\ itinerary[n].waypoints = <<4, 9>>
        /\ itinerary[n].next = 9
        /\ log[n].move = "Fork"
        /\ log[n].point = 3
        /\ weight_calcs[n] = <<"toward_next", "all_one">>

\* C10: whatever the interleaving of the navigators, each ends with a result
\* its itinerary gives when it is run on its own, and the collected routes
\* are these results in the order of the itineraries, without the Stuck ones.
C10_InterleavingFree ==
    gen_pc = "collected" =>
        /\ \A n \in navs :
              <<result[n], route[n]>> \in
                  navigation_results(lines, Navigator_new(
                      Itinerary_new(itinerary[n].start, itinerary[n].finish,
                                    itinerary[n].waypoints,
                                    itinerary[n].waypoint_radius),
                      weight_calcs[n]))
        /\ routes = filter_map_routes(result, route, 1)

C10_Witness ==
    /\ gen_pc = "collected"
    /\ Cardinality(navs) = 2
    /\ Len(routes) = 2
    /\ routes[1] # routes[2]

(***************************************************************************)
(* Strings, as far as the graph build looks into them.                     *)
(***************************************************************************)
\* str::ends_with
ends_with(v, suffix) ==
    /\ Len(v) >= Len(suffix)
    /\ SubSeq(v, Len(v) - Len(suffix) + 1, Len(v)) = suffix

\* str::starts_with
starts_with(v, prefix) ==
    /\ Len(v) >= Len(prefix)
    /\ SubSeq(v, 1, Len(prefix)) = prefix

\* str::replace(pat, ""): every occurrence of pat is taken out, left to right.
RECURSIVE replace_with_nothing(_, _)
replace_with_nothing(v, pat) ==
    IF Len(v) < Len(pat) THEN v
    ELSE IF SubSeq(v, 1, Len(pat)) = pat
         THEN replace_with_nothing(SubSeq(v, Len(pat) + 1, Len(v)), pat)
         ELSE SubSeq(v, 1, 1) \o replace_with_nothing(SubSeq(v, 2, Len(v)), pat)

\* str::split(" ").first(): the text before the first blank.
RECURSIVE split_first(_)
split_first(v) ==
    IF Len(v) = 0 \/ SubSeq(v, 1, 1) = " " THEN ""
    ELSE SubSeq(v, 1, 1) \o split_first(SubSeq(v, 2, Len(v)))

\* HashMap::get on a tag map: an Option as a set of at most one value.
tags_get(tags, key) == IF key \in DOMAIN tags THEN {tags[key]} ELSE {}

\* The value inside a Some.
the(opt) == CHOOSE v \in opt : TRUE

\* HashMap::insert
map_insert(m, k, v) == (k :> v) @@ m

(***************************************************************************)
(* Tag interning (ElementTagValueRef, ElementTagSet, ElementTags).         *)
(***************************************************************************)
\* ElementTagValueRef::none
ElementTagValueRef_none == 0

\* ElementTagValueRef::some
ElementTagValueRef_some(tag_idx) == tag_idx + 1

\* ElementTags::new; indices start at 0 as in the Vec, so tag_values[i + 1]
\* is the entry of index i.
ElementTags_new ==
    [tag_values |-> <<>>, tag_sets |-> <<>>, tag_map |-> <<>>, tag_set_map |-> <<>>]

\* ElementTags::clear_maps
clear_maps(tags) == [tags EXCEPT !.tag_map = <<>>, !.tag_set_map = <<>>]

\* The string get_tag_value_ref interns for a value: a value that ends with
\* _link loses every _link it contains.
link_normalised(v) ==
    IF ends_with(v, "_link") THEN replace_with_nothing(v, "_link") ELSE v

\* get_tag_value_ref that pushes a new entry without looking the value up.
get_tag_value_ref_no_lookup(tags, value) ==
    IF value = {} THEN [tags |-> tags, ref |-> ElementTagValueRef_none]
    ELSE LET v == link_normalised(the(value))
             new_idx == Len(tags.tag_values)
         IN [tags |-> [tags EXCEPT !.tag_values = Append(@, v),
                                   !.tag_map = map_insert(@, v, new_idx)],
             ref  |-> ElementTagValueRef_some(new_idx)]

\* ElementTags::get_tag_value_ref: the tag table after the call and the
\* reference returned.
get_tag_value_ref(tags, value) ==
    IF value = {} THEN [tags |-> tags, ref |-> ElementTagValueRef_none]
    ELSE LET v == link_normalised(the(value))
         IN IF v \in DOMAIN tags.tag_map
            THEN [tags |-> tags, ref |-> ElementTagValueRef_some(tags.tag_map[v])]
            ELSE LET new_idx == Len(tags.tag_values)
                 IN [tags |-> [tags EXCEPT !.tag_values = Append(@, v),
                                           !.tag_map = map_insert(@, v, new_idx)],
                     ref  |-> ElementTagValueRef_some(new_idx)]

\* ElementTags::get_or_create: the tag table after the call and the index
\* of the tag set (ElementTagSetRef.tag_set_idx).
get_or_create(tags, name, hw_ref, highway, surface, smoothness) ==
    LET r1 == get_tag_value_ref(tags, name)
        r2 == get_tag_value_ref(r1.tags, hw_ref)
        r3 == get_tag_value_ref(r2.tags, highway)
        r4 == get_tag_value_ref(r3.tags, surface)
        r5 == get_tag_value_ref(r4.tags, smoothness)
        tag_set == [name |-> r1.ref, hw_ref |-> r2.ref, highway |-> r3.ref,
                    surface |-> r4.ref, smoothness |-> r5.ref]
    IN IF tag_set \in DOMAIN r5.tags.tag_set_map
       THEN [tags |-> r5.tags, ref |-> r5.tags.tag_set_map[tag_set]]
       ELSE LET new_idx == Len(r5.tags.tag_sets)
            IN [tags |-> [r5.tags EXCEPT
                            !.tag_set_map = map_insert(@, tag_set, new_idx),
                            !.tag_sets = Append(@, tag_set)],
                ref  |-> new_idx]

\* ElementTagValueRef::borrow on a tag table: the Option of the string.
tag_value_borrow(tags, ref) == IF ref = 0 THEN {} ELSE {tags.tag_values[ref]}

(***************************************************************************)
(* The graph under construction (MapDataGraph and its insert operations).  *)
(* Point and line indices start at 0 as in the Vecs: points[i + 1] is the  *)
(* point of index i.                                                       *)
(***************************************************************************)
\* OsmNode
OsmNode(id, lat, lon, residential_in_proximity) ==
    [id |-> id, lat |-> lat, lon |-> lon,
     residential_in_proximity |-> residential_in_proximity, nogo_area |-> FALSE]

\* OsmWay; tags is the HashMap of the way (an absent map is an empty one:
\* way_is_ok turns both down before anything reads a tag).
OsmWay(id, ids, tags) == [id |-> id, point_ids |-> ids, tags |-> tags]

\* OsmWay::is_roundabout
osm_way_is_roundabout(osm_way) == tags_get(osm_way.tags, "junction") = {"roundabout"}

\* OsmWay::is_one_way
osm_way_is_one_way(osm_way) == tags_get(osm_way.tags, "oneway") = {"yes"}

\* OsmRelationMember
OsmRelationMember(member_ref, role, member_type) ==
    [member_ref |-> member_ref, role |-> role, member_type |-> member_type]

\* OsmRelation
OsmRelation(id, members, tags) == [id |-> id, members |-> members, tags |-> tags]

\* The cell of the proximity grid a coordinate falls in.
GridCellSize == 2

grid_cell(lat, lon) == <<lat \div GridCellSize, lon \div GridCellSize>>

\* PointGrid::new
PointGrid_new == <<>>

\* PointGrid::insert: the reference joins the references of its cell.
PointGrid_insert(grid, lat, lon, ref) ==
    LET cell == grid_cell(lat, lon)
    IN map_insert(grid, cell,
                  IF cell \in DOMAIN grid THEN Append(grid[cell], ref) ELSE <<ref>>)

\* MapDataGraph::new
MapDataGraph_new ==
    [points     |-> <<>>,
     points_map |-> <<>>,
     point_grid |-> PointGrid_new,
     ways_lines |-> <<>>,
     lines      |-> <<>>,
     tags       |-> ElementTags_new]

\* MapDataGraph::get_point_ref_by_id: the Option of the point's index.
get_point_ref_by_id(g, id) ==
    IF id \in DOMAIN g.points_map THEN {g.points_map[id]} ELSE {}

\* MapDataGraph::add_point
add_point(g, point) ==
    [g EXCEPT !.points_map = map_insert(@, point.id, Len(g.points)),
              !.points = Append(@, point)]

\* MapDataGraph::insert_node
insert_node(g, value) ==
    add_point(g, [id |-> value.id, lat |-> value.lat, lon |-> value.lon,
                  lines |-> <<>>, rules |-> <<>>,
                  residential_in_proximity |-> value.residential_in_proximity,
                  nogo_area |-> value.nogo_area])

\* ALLOWED_HIGHWAY_VALUES
ALLOWED_HIGHWAY_VALUES ==
    {"motorway", "trunk", "primary", "secondary", "tertiary", "unclassified",
     "residential", "motorway_link", "trunk_link", "primary_link",
     "secondary_link", "tertiary_link", "living_street", "track", "escape",
     "raceway", "road"}

\* MapDataGraph::way_is_ok
way_is_ok(osm_way) ==
    LET tags == osm_way.tags
        motorcycle == tags_get(tags, "motorcycle") = {"yes"}
    IN /\ tags_get(tags, "service") = {}
       /\ tags_get(tags, "access") \cap {"no", "private"} = {}
       /\ tags_get(tags, "motor_vehicle") \cap {"private", "no"} = {}
       /\ \E highway \in tags_get(tags, "highway") :
             /\ highway \in ALLOWED_HIGHWAY_VALUES
             /\ (highway # "path" \/ (highway = "path" /\ motorcycle))

\* Result<(), MapDataError>
Ok == [ok |-> TRUE, err |-> "", id |-> 0]

Err(err, id) == [ok |-> FALSE, err |-> err, id |-> id]

\* The line insert_way makes between two points, the tag table after the
\* interning of its tags, and the graph with the line in both incidence
\* lists (the later point's first).
insert_way_line(g, osm_way, prev_point_ref, point_ref) ==
    LET created == get_or_create(g.tags,
                                 tags_get(osm_way.tags, "name"),
                                 tags_get(osm_way.tags, "ref"),
                                 tags_get(osm_way.tags, "highway"),
                                 tags_get(osm_way.tags, "surface"),
                                 tags_get(osm_way.tags, "smoothness"))
        line == [points    |-> <<prev_point_ref, point_ref>>,
                 direction |-> IF osm_way_is_roundabout(osm_way) THEN "Roundabout"
                               ELSE IF osm_way_is_one_way(osm_way) THEN "OneWay"
                               ELSE "BothWays",
                 tags      |-> created.ref]
        line_idx == Len(g.lines)
        g1 == [g EXCEPT !.tags = created.tags, !.lines = Append(@, line)]
        g2 == [g1 EXCEPT !.points[point_ref + 1].lines = Append(@, line_idx)]
    IN [g2 EXCEPT !.points[prev_point_ref + 1].lines = Append(@, line_idx)]

\* The loop of insert_way from the i-th point id on; prev_point_ref is an
\* Option (a set).  A missing point ends the call at once.
RECURSIVE insert_way_points(_, _, _, _, _)
insert_way_points(g, osm_way, i, prev_point_ref, way_line_refs) ==
    IF i > Len(osm_way.point_ids)
    THEN [graph |-> [g EXCEPT !.ways_lines = map_insert(@, osm_way.id, way_line_refs)],
          res   |-> Ok]
    ELSE LET point_id == osm_way.point_ids[i]
             found == get_point_ref_by_id(g, point_id)
         IN IF found = {}
            THEN [graph |-> g, res |-> Err("MissingPoint", point_id)]
            ELSE IF prev_point_ref = {}
            THEN insert_way_points(g, osm_way, i + 1, found, way_line_refs)
            ELSE insert_way_points(
                     insert_way_line(g, osm_way, the(prev_point_ref), the(found)),
                     osm_way, i + 1, found, Append(way_line_refs, Len(g.lines)))

\* insert_way that passes over a point id it does not find.
RECURSIVE insert_way_points_skip_missing(_, _, _, _, _)
insert_way_points_skip_missing(g, osm_way, i, prev_point_ref, way_line_refs) ==
    IF i > Len(osm_way.point_ids)
    THEN [graph |-> [g EXCEPT !.ways_lines = map_insert(@, osm_way.id, way_line_refs)],
          res   |-> Ok]
    ELSE LET found == get_point_ref_by_id(g, osm_way.point_ids[i])
         IN IF found = {}
            THEN insert_way_points_skip_missing(g, osm_way, i + 1, prev_point_ref,
                                                way_line_refs)
            ELSE IF prev_point_ref = {}
            THEN insert_way_points_skip_missing(g, osm_way, i + 1, found, way_line_refs)
            ELSE insert_way_points_skip_missing(
                     insert_way_line(g, osm_way, the(prev_point_ref), the(found)),
                     osm_way, i + 1, found, Append(way_line_refs, Len(g.lines)))

insert_way_skip_missing(g, osm_way) ==
    IF ~way_is_ok(osm_way) THEN [graph |-> g, res |-> Ok]
    ELSE insert_way_points_skip_missing(g, osm_way, 1, {}, <<>>)

\* MapDataGraph::insert_way: the graph after the call and the Result.
insert_way(g, osm_way) ==
    IF ~way_is_ok(osm_way) THEN [graph |-> g, res |-> Ok]
    ELSE insert_way_points(g, osm_way, 1, {}, <<>>)

\* MapDataGraph::relation_is_ok
relation_is_ok(relation) ==
    /\ \E rel_type \in tags_get(relation.tags, "type") :
          starts_with(rel_type, "restriction")
    /\ \E key \in {"restriction", "restriction:motorcycle",
                   "restriction:conditional", "restriction:motorcar"} :
          key \in DOMAIN relation.tags

\* The restriction value insert_relation reads: the first of the four tags
\* that is present.
relation_restriction(relation) ==
    LET tags == relation.tags
    IN IF "restriction" \in DOMAIN tags THEN tags["restriction"]
       ELSE IF "restriction:motorcycle" \in DOMAIN tags
            THEN tags["restriction:motorcycle"]
       ELSE IF "restriction:conditional" \in DOMAIN tags
            THEN tags["restriction:conditional"]
       ELSE tags["restriction:motorcar"]

\* The MapDataRuleType of a restriction value, an Option.
rule_type_of(restriction) ==
    LET word == split_first(restriction)
    IN IF word \in {"no_right_turn", "no_left_turn", "no_u_turn",
                    "no_straight_on", "no_entry", "no_exit"}
       THEN {"NotAllowed"}
       ELSE IF word \in {"only_right_turn", "only_left_turn", "only_u_turn",
                         "only_straight_on"}
            THEN {"OnlyAllowed"}
            ELSE {}

\* get_lines_from_way_ids of insert_relation: the lines of the ways that
\* the members of a role refer to, in the order of the members.
RECURSIVE get_lines_from_way_ids(_, _, _, _)
get_lines_from_way_ids(g, members, role, i) ==
    IF i > Len(members) THEN <<>>
    ELSE (IF members[i].role = role /\ members[i].member_ref \in DOMAIN g.ways_lines
          THEN g.ways_lines[members[i].member_ref]
          ELSE <<>>)
         \o get_lines_from_way_ids(g, members, role, i + 1)

\* insert_relation that does not look at the type of the via member.
insert_relation_any_via_type(g, relation) ==
    IF ~relation_is_ok(relation) THEN [graph |-> g, res |-> Ok]
    ELSE
    LET rule_type   == rule_type_of(relation_restriction(relation))
        via_members == SelectSeq(relation.members, LAMBDA m : m.role = "Via")
        from_lines  == get_lines_from_way_ids(g, relation.members, "From", 1)
        to_lines    == get_lines_from_way_ids(g, relation.members, "To", 1)
    IN IF rule_type = {}
       THEN [graph |-> g, res |-> Err("UnknownRestriction", relation.id)]
       ELSE IF Len(via_members) = 1
       THEN IF from_lines = <<>> \/ to_lines = <<>>
            THEN [graph |-> g, res |-> Ok]
            ELSE LET via_point == get_point_ref_by_id(g, via_members[1].member_ref)
                 IN IF via_point = {}
                    THEN [graph |-> g,
                          res   |-> Err("MissingViaPoint", via_members[1].member_ref)]
                    ELSE [graph |-> [g EXCEPT !.points[the(via_point) + 1].rules =
                                        Append(@, [from_lines |-> from_lines,
                                                   to_lines   |-> to_lines,
                                                   rule_type  |-> the(rule_type)])],
                          res   |-> Ok]
       ELSE IF Len(via_members) > 1
       THEN [graph |-> g, res |-> Err("NotYetImplemented", relation.id)]
       ELSE [graph |-> g, res |-> Ok]

\* MapDataGraph::insert_relation: the graph after the call and the Result.
insert_relation(g, relation) ==
    IF ~relation_is_ok(relation) THEN [graph |-> g, res |-> Ok]
    ELSE
    LET rule_type   == rule_type_of(relation_restriction(relation))
        via_members == SelectSeq(relation.members, LAMBDA m : m.role = "Via")
        from_lines  == get_lines_from_way_ids(g, relation.members, "From", 1)
        to_lines    == get_lines_from_way_ids(g, relation.members, "To", 1)
    IN IF rule_type = {}
       THEN [graph |-> g, res |-> Err("UnknownRestriction", relation.id)]
       ELSE IF Len(via_members) = 1
       THEN IF from_lines = <<>> \/ to_lines = <<>>
            THEN [graph |-> g, res |-> Ok]
            ELSE IF via_members[1].member_type = "Way"
            THEN [graph |-> g, res |-> Err("NotYetImplemented", relation.id)]
            ELSE LET via_point == get_point_ref_by_id(g, via_members[1].member_ref)
                 IN IF via_point = {}
                    THEN [graph |-> g,
                          res   |-> Err("MissingViaPoint", via_members[1].member_ref)]
                    ELSE [graph |-> [g EXCEPT !.points[the(via_point) + 1].rules =
                                        Append(@, [from_lines |-> from_lines,
                                                   to_lines   |-> to_lines,
                                                   rule_type  |-> the(rule_type)])],
                          res   |-> Ok]
       ELSE IF Len(via_members) > 1
       THEN [graph |-> g, res |-> Err("NotYetImplemented", relation.id)]
       ELSE [graph |-> g, res |-> Ok]

\* The loop of generate_point_hashes from the i-th point on: every point
\* with a line goes into the grid under the index its id has in points_map.
\* A point whose id is not in the map makes the call panic.
RECURSIVE point_hashes_from(_, _, _)
point_hashes_from(g, grid, i) ==
    IF i > Len(g.points) THEN [grid |-> grid, panic |-> FALSE]
    ELSE LET point == g.points[i]
         IN IF point.lines = <<>> THEN point_hashes_from(g, grid, i + 1)
            ELSE IF point.id \notin DOMAIN g.points_map
            THEN [grid |-> grid, panic |-> TRUE]
            ELSE point_hashes_from(
                     g, PointGrid_insert(grid, point.lat, point.lon,
                                         g.points_map[point.id]), i + 1)

\* MapDataGraph::generate_point_hashes (not under cfg(test): the maps that
\* only the build needs are dropped).
generate_point_hashes(g) ==
    LET hashed == point_hashes_from(g, g.point_grid, 1)
    IN IF hashed.panic
       THEN [graph |-> [g EXCEPT !.point_grid = hashed.grid], res |-> Err("panic", 0)]
       ELSE [graph |-> [g EXCEPT !.point_grid = hashed.grid,
                                 !.points_map = <<>>,
                                 !.ways_lines = <<>>,
                                 !.tags = clear_maps(@)],
             res   |-> Ok]

(***************************************************************************)
(* The graph build: any calls of the insert operations on one graph.       *)
(***************************************************************************)
\* Calls on one graph.
MaxCalls == 3

BuildNodes == { OsmNode(id, id, id, FALSE) : id \in 1..3 }

BuildWays ==
    { OsmWay(10, <<1, 2>>, [highway |-> "primary"]),
      OsmWay(11, <<2, 3>>, [highway |-> "primary_link", oneway |-> "yes"]),
      OsmWay(12, <<1, 3>>, [highway |-> "path", motorcycle |-> "yes"]),
      OsmWay(13, <<3, 1>>, [highway |-> "trunk", motor_vehicle |-> "destination"]),
      OsmWay(14, <<1, 1>>, [highway |-> "track", name |-> "old_link"]),
      OsmWay(15, <<1, 2, 4>>, [highway |-> "primary", name |-> "old"]),
      OsmWay(16, <<2, 3>>, [highway |-> "residential", access |-> "private"]),
      OsmWay(17, <<4, 1>>, [highway |-> "cycleway"]) }

restriction_tags(text) == [type |-> "restriction", restriction |-> text]

BuildRelations ==
    { OsmRelation(20, <<OsmRelationMember(10, "From", "Way"),
                        OsmRelationMember(2, "Via", "Node"),
                        OsmRelationMember(11, "To", "Way")>>,
                  restriction_tags("no_left_turn")),
      OsmRelation(21, <<OsmRelationMember(10, "From", "Way"),
                        OsmRelationMember(2, "Via", "Node"),
                        OsmRelationMember(3, "Via", "Node"),
                        OsmRelationMember(11, "To", "Way")>>,
                  restriction_tags("only_straight_on @ (Mo-Fr)")),
      OsmRelation(22, <<OsmRelationMember(10, "From", "Way"),
                        OsmRelationMember(11, "Via", "Way"),
                        OsmRelationMember(11, "To", "Way")>>,
                  restriction_tags("no_u_turn")),
      OsmRelation(23, <<OsmRelationMember(10, "From", "Way"),
                        OsmRelationMember(2, "Via", "Node"),
                        OsmRelationMember(3, "Via", "Node"),
                        OsmRelationMember(11, "To", "Way")>>,
                  restriction_tags("no_parking")),
      OsmRelation(24, <<OsmRelationMember(10, "From", "Way"),
                        OsmRelationMember(11, "To", "Way")>>,
                  restriction_tags("no_right_turn")),
      OsmRelation(25, <<OsmRelationMember(10, "From", "Way"),
                        OsmRelationMember(2, "Via", "Node"),
                        OsmRelationMember(11, "To", "Way")>>,
                  [type |-> "route", restriction |-> "no_left_turn"]) }

\* The graph after insert_node for the nodes of ids 1..k.
RECURSIVE graph_with_nodes(_)
graph_with_nodes(k) ==
    IF k = 0 THEN MapDataGraph_new
    ELSE insert_node(graph_with_nodes(k - 1), OsmNode(k, k, k, FALSE))

\* The record of a call: its number, the operation, its argument and its
\* Result, and whether generate_point_hashes has sealed the graph by now.
Called(n, op, arg, res, sealed) ==
    [n |-> n, op |-> op, arg |-> arg, res |-> res, sealed |-> sealed]

InitBuild ==
    /\ NavNotStarted
    /\ ToolsNotStarted
    /\ \E k \in {0, 2, 3} : map_data = graph_with_nodes(k)
    /\ call = Called(0, "new", <<>>, Ok, FALSE)
    /\ reader = NotStarted
    /\ slot = NotStarted
    /\ callers = NotStarted
    /\ query = NotStarted
    /\ cluster = NotStarted

InsertNode(node) ==
    /\ call.n < MaxCalls
    /\ map_data' = insert_node(map_data, node)
    /\ call' = Called(call.n + 1, "insert_node", node, Ok, call.sealed)
    /\ UNCHANGED <<reader, slot, callers, query, cluster>>
    /\ UNCHANGED <<nav_vars, tool_vars>>

InsertWay(osm_way) ==
    /\ call.n < MaxCalls
    /\ map_data' = insert_way(map_data, osm_way).graph
    /\ call' = Called(call.n + 1, "insert_way", osm_way,
                      insert_way(map_data, osm_way).res, call.sealed)
    /\ UNCHANGED <<reader, slot, callers, query, cluster>>
    /\ UNCHANGED <<nav_vars, tool_vars>>

InsertRelation(relation) ==
    /\ call.n < MaxCalls
    /\ map_data' = insert_relation(map_data, relation).graph
    /\ call' = Called(call.n + 1, "insert_relation", relation,
                      insert_relation(map_data, relation).res, call.sealed)
    /\ UNCHANGED <<reader, slot, callers, query, cluster>>
    /\ UNCHANGED <<nav_vars, tool_vars>>

GeneratePointHashes ==
    /\ call.n < MaxCalls
    /\ map_data' = generate_point_hashes(map_data).graph
    /\ call' = Called(call.n + 1, "generate_point_hashes", <<>>,
                      generate_point_hashes(map_data).res, TRUE)
    /\ UNCHANGED <<reader, slot, callers, query, cluster>>
    /\ UNCHANGED <<nav_vars, tool_vars>>

NextBuild ==
    \/ \E node \in BuildNodes : InsertNode(node)
    \/ \E osm_way \in BuildWays : InsertWay(osm_way)
    \/ \E relation \in BuildRelations : InsertRelation(relation)
    \/ GeneratePointHashes

SpecBuild == InitBuild /\ [][NextBuild]_vars

(***************************************************************************)
(* Properties of the graph build.                                          *)
(***************************************************************************)
\* The elements of a sequence.
Range(f) == {f[i] : i \in DOMAIN f}

\* C13: after generate_point_hashes every line is bound to two points, its
\* index is in the incidence list of both of them and in the incidence list
\* of no other point.
C13_LineBoundToTwoPoints ==
    call.op = "generate_point_hashes" =>
        \A l \in DOMAIN map_data.lines :
            LET ends == Range(map_data.lines[l].points)
            IN /\ Cardinality(ends) = 2
               /\ \A p \in DOMAIN map_data.points :
                     (l - 1) \in Range(map_data.points[p].lines) <=> (p - 1) \in ends

\* The point ids of a way for which the graph has no point.
missing_points(g, osm_way) ==
    {id \in Range(osm_way.point_ids) : id \notin DOMAIN g.points_map}

\* C14: insert_way on a way that way_is_ok admits and that refers to a
\* point id without a point returns Err(MissingPoint) with such an id, the
\* first one of the way.
C14_MissingPoint ==
    [][(/\ call'.n # call.n
        /\ call'.op = "insert_way"
        /\ way_is_ok(call'.arg)
        /\ missing_points(map_data, call'.arg) # {})
          => /\ ~call'.res.ok
             /\ call'.res.err = "MissingPoint"
             /\ call'.res.id \in missing_points(map_data, call'.arg)
             /\ \E i \in DOMAIN call'.arg.point_ids :
                   /\ call'.arg.point_ids[i] = call'.res.id
                   /\ \A j \in 1..(i - 1) :
                         call'.arg.point_ids[j] \in DOMAIN map_data.points_map]_vars

C14_Witness ==
    /\ call.op = "insert_way"
    /\ call.arg.point_ids = <<1, 2, 4>>
    /\ call.res = Err("MissingPoint", 4)
    /\ 1 \in DOMAIN map_data.points_map

\* The ways the claim C15 says are kept.
C15_kept(osm_way) ==
    LET tags == osm_way.tags
    IN /\ \/ tags_get(tags, "highway") \cap ALLOWED_HIGHWAY_VALUES # {}
          \/ /\ tags_get(tags, "highway") = {"path"}
             /\ tags_get(tags, "motorcycle") = {"yes"}
       /\ tags_get(tags, "service") = {}
       /\ tags_get(tags, "access") \cap {"no", "private"} = {}
       /\ tags_get(tags, "motor_vehicle") \cap {"no", "private", "destination"} = {}

\* C15: insert_way adds the lines of a way iff the way has an allowed
\* highway value, or is a path with motorcycle=yes, and has no service tag,
\* no access or motor_vehicle of no or private and no
\* motor_vehicle=destination; any other way is dropped with Ok and leaves
\* the graph as it was.
C15_WayKeptIffAdmissible ==
    [][(/\ call'.n # call.n
        /\ call'.op = "insert_way"
        /\ Len(call'.arg.point_ids) >= 2
        /\ missing_points(map_data, call'.arg) = {})
          => /\ call'.res.ok
             /\ C15_kept(call'.arg) <=> Len(map_data'.lines) > Len(map_data.lines)
             /\ ~C15_kept(call'.arg) => map_data' = map_data]_vars

\* The via members of a relation.
via_members_of(relation) == SelectSeq(relation.members, LAMBDA m : m.role = "Via")

\* C16 as it was stated: insert_relation on a relation that relation_is_ok
\* admits returns NotYetImplemented whenever the relation has more than one
\* via member or its via member is a way, and Ok without a new rule when it
\* has no via member.
C16_ViaNotYetImplemented ==
    [][(/\ call'.n # call.n
        /\ call'.op = "insert_relation"
        /\ relation_is_ok(call'.arg))
          => LET via == via_members_of(call'.arg)
             IN /\ (\/ Len(via) > 1
                    \/ (Len(via) = 1 /\ via[1].member_type = "Way"))
                      => call'.res = Err("NotYetImplemented", call'.arg.id)
                /\ Len(via) = 0 => (call'.res.ok /\ map_data' = map_data)]_vars

\* C16 amended: for a relation that relation_is_ok admits and whose
\* restriction value begins with a known restriction word, insert_relation
\* returns NotYetImplemented when there is more than one via member, and
\* when the one via member is a way and both the from and the to members
\* resolve to lines of the graph; with one via member and no from line or
\* no to line it returns Ok; with no via member it returns Ok and adds no
\* rule; an unknown restriction word gives UnknownRestriction whatever the
\* members are.
C16_ViaNotYetImplementedAmended ==
    [][(/\ call'.n # call.n
        /\ call'.op = "insert_relation"
        /\ relation_is_ok(call'.arg))
          => LET rel  == call'.arg
                 via  == via_members_of(rel)
                 from == get_lines_from_way_ids(map_data, rel.members, "From", 1)
                 to   == get_lines_from_way_ids(map_data, rel.members, "To", 1)
             IN IF rule_type_of(relation_restriction(rel)) = {}
                THEN /\ call'.res = Err("UnknownRestriction", rel.id)
                     /\ map_data' = map_data
                ELSE /\ Len(via) > 1
                          => call'.res = Err("NotYetImplemented", rel.id)
                     /\ (Len(via) = 1 /\ via[1].member_type = "Way"
                           /\ from # <<>> /\ to # <<>>)
                          => call'.res = Err("NotYetImplemented", rel.id)
                     /\ (Len(via) = 1 /\ (from = <<>> \/ to = <<>>))
                          => (call'.res.ok /\ map_data' = map_data)
                     /\ Len(via) = 0 => (call'.res.ok /\ map_data' = map_data)]_vars

C16_Witness ==
    /\ call.op = "insert_relation"
    /\ Len(via_members_of(call.arg)) = 1
    /\ via_members_of(call.arg)[1].member_type = "Way"
    /\ call.res = Err("NotYetImplemented", call.arg.id)

\* The tag keys of a way that go into the five fields of a tag set.
TagSetFields ==
    [name |-> "name", hw_ref |-> "ref", highway |-> "highway",
     surface |-> "surface", smoothness |-> "smoothness"]

\* C17: during the build, that is until generate_point_hashes has sealed
\* the graph, no two slots of the tag table hold the same tag set and no
\* two string slots the same string, so two handles are the same index iff
\* their tuples of string-slot ids are equal; the string slot a line gets
\* for a tag of its way holds the value after the _link normalisation, and
\* the id 0 stands exactly for a tag the way does not have.
C17_TagInterning ==
    [][~call.sealed =>
       LET tags == map_data'.tags
       IN /\ \A i, j \in DOMAIN tags.tag_sets :
                tags.tag_sets[i] = tags.tag_sets[j] => i = j
          /\ \A i, j \in DOMAIN tags.tag_values :
                tags.tag_values[i] = tags.tag_values[j] => i = j
          /\ \A l \in DOMAIN map_data'.lines :
                map_data'.lines[l].tags \in 0..(Len(tags.tag_sets) - 1)
          /\ (call'.n # call.n /\ call'.op = "insert_way")
               => \A l \in (Len(map_data.lines) + 1)..Len(map_data'.lines) :
                     LET tag_set == tags.tag_sets[map_data'.lines[l].tags + 1]
                     IN \A field \in DOMAIN TagSetFields :
                           /\ tag_set[field] = 0
                                <=> tags_get(call'.arg.tags, TagSetFields[field]) = {}
                           /\ tag_value_borrow(tags, tag_set[field])
                                = {link_normalised(v) :
                                     v \in tags_get(call'.arg.tags, TagSetFields[field])}
      ]_vars

C17_Witness ==
    /\ Len(map_data.lines) = 2
    /\ map_data.lines[1].tags = map_data.lines[2].tags
    /\ map_data.lines[1].direction # map_data.lines[2].direction
    /\ map_data.tags.tag_values = <<"primary">>
    /\ ~call.sealed

(***************************************************************************)
(* The readers: OsmDataReader::read_json with process_elements,            *)
(* OsmDataReader::read_pbf and PbfReader::read.                            *)
(***************************************************************************)
\* Elements in one input.
MaxElements == 3

\* OsmElement
Element(type, value) == [type |-> type, value |-> value]

ReaderElements ==
    { Element("Node", OsmNode(1, 1, 1, FALSE)),
      Element("Node", OsmNode(2, 2, 2, FALSE)),
      Element("Way", OsmWay(10, <<1, 2>>, [highway |-> "primary"])),
      Element("Way", OsmWay(15, <<1, 2, 4>>, [highway |-> "primary", name |-> "old"])),
      Element("Way", OsmWay(17, <<4, 1>>, [highway |-> "cycleway"])),
      Element("Relation",
              OsmRelation(23, <<OsmRelationMember(10, "From", "Way"),
                                OsmRelationMember(1, "Via", "Node"),
                                OsmRelationMember(2, "Via", "Node"),
                                OsmRelationMember(10, "To", "Way")>>,
                          restriction_tags("no_parking"))) }

\* The place of an element in the order of a PBF file and of the map that
\* get_objs_and_deps returns: nodes, then ways, then relations, each by id.
element_rank(e) ==
    (CASE e.type = "Node" -> 0 [] e.type = "Way" -> 100 [] OTHER -> 200) + e.value.id

in_pbf_order(file) ==
    \A i, j \in DOMAIN file : i < j => element_rank(file[i]) < element_rank(file[j])

\* The filter the PBF readers hand to get_objs_and_deps.
pbf_way_filter(osm_way) ==
    /\ \E highway \in tags_get(osm_way.tags, "highway") :
          \/ highway \in ALLOWED_HIGHWAY_VALUES
          \/ (highway = "path" /\ tags_get(osm_way.tags, "motorcycle") = {"yes"})
    /\ tags_get(osm_way.tags, "motor_vehicle") # {"destination"}

\* get_objs_and_deps: the ways the filter lets through and the nodes they
\* refer to, in the order of the file.
get_objs_and_deps(file) ==
    LET kept == {i \in DOMAIN file :
                    file[i].type = "Way" /\ pbf_way_filter(file[i].value)}
        deps == {i \in DOMAIN file :
                    /\ file[i].type = "Node"
                    /\ \E w \in kept :
                          file[i].value.id \in Range(file[w].value.point_ids)}
    IN SelectSeq([i \in DOMAIN file |-> [at |-> i, element |-> file[i]]],
                 LAMBDA x : x.at \in kept \cup deps)

\* The elements the loop of a reader goes through.
reader_elements(kind, file) ==
    IF kind = "json" THEN file
    ELSE [i \in DOMAIN get_objs_and_deps(file) |-> get_objs_and_deps(file)[i].element]

\* One element handed to the graph: the graph after it and the Result.
insert_element(g, element) ==
    CASE element.type = "Node" -> [graph |-> insert_node(g, element.value), res |-> Ok]
      [] element.type = "Way" -> insert_way(g, element.value)
      [] OTHER -> insert_relation(g, element.value)

\* OsmDataReader::new and the start of read_data.
Reader_new(kind, file) ==
    [kind     |-> kind,
     elements |-> reader_elements(kind, file),
     pos      |-> 1,
     inserted |-> {},
     hashes   |-> 0,
     status   |-> "reading"]

InitReader ==
    /\ NavNotStarted
    /\ ToolsNotStarted
    /\ map_data = MapDataGraph_new
    /\ call = Called(0, "new", <<>>, Ok, FALSE)
    /\ \E kind \in {"json", "pbf", "pbf_reader"},
          file \in seqs_up_to(ReaderElements, MaxElements) :
          /\ kind # "json" => in_pbf_order(file)
          /\ reader = Reader_new(kind, file)
    /\ slot = NotStarted
    /\ callers = NotStarted
    /\ query = NotStarted
    /\ cluster = NotStarted

\* The reader has handed its next element to the graph: done is the graph
\* after it and the Result, on_err the status of the reader after an Err.
ElementProcessed(done, on_err) ==
    /\ map_data' = done.graph
    /\ call' = Called(call.n + 1, reader.elements[reader.pos].type,
                      reader.elements[reader.pos].value, done.res, FALSE)
    /\ reader' = [reader EXCEPT !.pos = @ + 1,
                                !.inserted = @ \cup {reader.pos},
                                !.status = IF done.res.ok THEN "reading"
                                           ELSE on_err]
    /\ UNCHANGED <<slot, callers, query, cluster>>
    /\ UNCHANGED <<nav_vars, tool_vars>>

\* One turn of the loop of process_elements: an Err of insert_way or
\* insert_relation is logged and the loop goes on.
ProcessElement ==
    /\ reader.kind = "json"
    /\ reader.status = "reading"
    /\ reader.pos <= Len(reader.elements)
    /\ ElementProcessed(insert_element(map_data, reader.elements[reader.pos]),
                        "reading")

\* One turn of the insert loop of read_pbf and of PbfReader::read: an Err
\* goes out of the function with the ? operator.
ProcessPbfElement ==
    /\ reader.kind \in {"pbf", "pbf_reader"}
    /\ reader.status = "reading"
    /\ reader.pos <= Len(reader.elements)
    /\ ElementProcessed(insert_element(map_data, reader.elements[reader.pos]),
                        "failed")

\* After the last element: generate_point_hashes, then Ok.
FinishRead ==
    /\ reader.status = "reading"
    /\ reader.pos > Len(reader.elements)
    /\ map_data' = generate_point_hashes(map_data).graph
    /\ call' = Called(call.n + 1, "generate_point_hashes", <<>>,
                      generate_point_hashes(map_data).res, TRUE)
    /\ reader' = [reader EXCEPT !.hashes = @ + 1, !.status = "done"]
    /\ UNCHANGED <<slot, callers, query, cluster>>
    /\ UNCHANGED <<nav_vars, tool_vars>>

NextReader ==
    \/ ProcessElement
    \/ ProcessPbfElement
    \/ FinishRead

SpecReader == InitReader /\ [][NextReader]_vars

\* C20: a failed insert_way or insert_relation costs the reader that one
\* element only: no reader ends before it has handed every element of its
\* loop to the graph, and each calls generate_point_hashes once after the
\* last one.
C20_ReaderSkipsFailedElement ==
    /\ reader.status # "failed"
    /\ reader.status = "done" =>
          /\ reader.inserted = DOMAIN reader.elements
          /\ reader.hashes = 1
          /\ call.sealed

(***************************************************************************)
(* pack and unpack: the four parts of a graph as bincode writes and reads  *)
(* them.  A packed part is a sequence of numbers: a string is its length   *)
(* and its characters, a Vec or HashMap its length and its entries, a      *)
(* struct or tuple its fields in the order of declaration, an enum the     *)
(* number of its variant.                                                  *)
(***************************************************************************)
Alphabet == "abcdefghijklmnopqrstuvwxyz_0123456789 -@()"

\* The layout of a serde type: its kind, the names of its fields or
\* variants, and the layouts of its fields, items, or key and value.
Layout(kind, names, of) == [kind |-> kind, names |-> names, of |-> of]

u64 == Layout("number", <<>>, <<>>)

\* MapDataElementRef: idx
MapDataElementRef_layout == u64

\* MapDataLine: points, direction, tags
MapDataLine_layout ==
    Layout("struct", <<"points", "direction", "tags">>,
           << Layout("tuple", <<>>, <<MapDataElementRef_layout, MapDataElementRef_layout>>),
              Layout("enum", <<"BothWays", "OneWay", "Roundabout">>, <<>>),
              u64 >>)

\* MapDataRule: from_lines, to_lines, rule_type
MapDataRule_layout ==
    Layout("struct", <<"from_lines", "to_lines", "rule_type">>,
           << Layout("vec", <<>>, <<MapDataElementRef_layout>>),
              Layout("vec", <<>>, <<MapDataElementRef_layout>>),
              Layout("enum", <<"OnlyAllowed", "NotAllowed">>, <<>>) >>)

\* MapDataPoint
MapDataPoint_layout ==
    Layout("struct",
           <<"id", "lat", "lon", "lines", "rules", "residential_in_proximity",
             "nogo_area">>,
           << u64, u64, u64,
              Layout("vec", <<>>, <<MapDataElementRef_layout>>),
              Layout("vec", <<>>, <<MapDataRule_layout>>),
              Layout("bool", <<>>, <<>>),
              Layout("bool", <<>>, <<>>) >>)

\* ElementTagSet: five ElementTagValueRef
ElementTagSet_layout ==
    Layout("struct", <<"name", "hw_ref", "highway", "surface", "smoothness">>,
           <<u64, u64, u64, u64, u64>>)

\* ElementTags: tag_values, tag_sets, tag_map, tag_set_map
ElementTags_layout ==
    Layout("struct", <<"tag_values", "tag_sets", "tag_map", "tag_set_map">>,
           << Layout("vec", <<>>, <<Layout("string", <<>>, <<>>)>>),
              Layout("vec", <<>>, <<ElementTagSet_layout>>),
              Layout("map", <<>>, <<Layout("string", <<>>, <<>>), u64>>),
              Layout("map", <<>>, <<ElementTagSet_layout, u64>>) >>)

\* PointGrid: the cells and the references each holds.
PointGrid_layout ==
    Layout("map", <<>>,
           << Layout("tuple", <<>>, <<u64, u64>>),
              Layout("vec", <<>>, <<MapDataElementRef_layout>>) >>)

\* The entries of a HashMap in the order its iterator gives them.
RECURSIVE map_entries(_)
map_entries(m) ==
    IF DOMAIN m = {} THEN <<>>
    ELSE LET k == CHOOSE x \in DOMAIN m : TRUE
         IN <<<<k, m[k]>>>> \o map_entries([x \in DOMAIN m \ {k} |-> m[x]])

\* bincode::serialize of a value of the layout.
RECURSIVE serialize(_, _)
serialize(layout, value) ==
    LET fields[i \in 0..Len(layout.of)] ==
            IF i = 0 THEN <<>>
            ELSE fields[i - 1]
                     \o serialize(layout.of[i],
                                  IF layout.kind = "struct" THEN value[layout.names[i]]
                                  ELSE value[i])
        items[i \in 0..(IF layout.kind = "vec" THEN Len(value) ELSE 0)] ==
            IF i = 0 THEN <<>> ELSE items[i - 1] \o serialize(layout.of[1], value[i])
    IN CASE layout.kind = "number" -> <<value>>
         [] layout.kind = "bool" -> <<IF value THEN 1 ELSE 0>>
         [] layout.kind = "string" ->
                <<Len(value)>>
                    \o [i \in 1..Len(value) |->
                           CHOOSE code \in 1..Len(Alphabet) :
                               SubSeq(Alphabet, code, code) = SubSeq(value, i, i)]
         [] layout.kind = "enum" ->
                <<(CHOOSE i \in DOMAIN layout.names : layout.names[i] = value) - 1>>
         [] layout.kind = "vec" -> <<Len(value)>> \o items[Len(value)]
         [] layout.kind = "map" ->
                serialize(Layout("vec", <<>>, <<Layout("tuple", <<>>, layout.of)>>),
                          map_entries(value))
         [] OTHER -> fields[Len(layout.of)]

\* bincode::deserialize of a value of the layout from the front of bytes:
\* the value and the bytes after it.
RECURSIVE deserialize(_, _)
deserialize(layout, bytes) ==
    LET fields[i \in 0..Len(layout.of)] ==
            IF i = 0 THEN [value |-> <<>>, rest |-> bytes]
            ELSE LET field == deserialize(layout.of[i], fields[i - 1].rest)
                 IN [value |-> Append(fields[i - 1].value, field.value),
                     rest  |-> field.rest]
        items[i \in 0..(IF layout.kind \in {"vec", "map"} THEN bytes[1] ELSE 0)] ==
            IF i = 0 THEN [value |-> <<>>, rest |-> Tail(bytes)]
            ELSE LET item == deserialize(IF layout.kind = "vec" THEN layout.of[1]
                                         ELSE Layout("tuple", <<>>, layout.of),
                                         items[i - 1].rest)
                 IN [value |-> IF layout.kind = "vec"
                               THEN Append(items[i - 1].value, item.value)
                               ELSE map_insert(items[i - 1].value, item.value[1],
                                               item.value[2]),
                     rest  |-> item.rest]
        characters[i \in 0..(IF layout.kind = "string" THEN bytes[1] ELSE 0)] ==
            IF i = 0 THEN ""
            ELSE characters[i - 1] \o SubSeq(Alphabet, bytes[i + 1], bytes[i + 1])
    IN CASE layout.kind = "number" -> [value |-> bytes[1], rest |-> Tail(bytes)]
         [] layout.kind = "bool" -> [value |-> bytes[1] = 1, rest |-> Tail(bytes)]
         [] layout.kind = "string" ->
                [value |-> characters[bytes[1]],
                 rest  |-> SubSeq(bytes, bytes[1] + 2, Len(bytes))]
         [] layout.kind = "enum" ->
                [value |-> layout.names[bytes[1] + 1], rest |-> Tail(bytes)]
         [] layout.kind \in {"vec", "map"} -> items[bytes[1]]
         [] layout.kind = "struct" ->
                [value |-> [name \in Range(layout.names) |->
                               fields[Len(layout.of)].value[
                                   CHOOSE i \in DOMAIN layout.names :
                                       layout.names[i] = name]],
                 rest  |-> fields[Len(layout.of)].rest]
         [] OTHER -> fields[Len(layout.of)]

\* MapDataGraph::pack
pack(g) ==
    [points     |-> serialize(Layout("vec", <<>>, <<MapDataPoint_layout>>), g.points),
     lines      |-> serialize(Layout("vec", <<>>, <<MapDataLine_layout>>), g.lines),
     tags       |-> serialize(ElementTags_layout, g.tags),
     point_grid |-> serialize(PointGrid_layout, g.point_grid)]

\* unpack that does not read the grid back.
unpack_graph_without_grid(packed) ==
    [points     |-> deserialize(Layout("vec", <<>>, <<MapDataPoint_layout>>),
                                packed.points).value,
     points_map |-> <<>>,
     point_grid |-> PointGrid_new,
     ways_lines |-> <<>>,
     lines      |-> deserialize(Layout("vec", <<>>, <<MapDataLine_layout>>),
                                packed.lines).value,
     tags       |-> deserialize(ElementTags_layout, packed.tags).value]

\* MapDataGraph::unpack up to the slot: the graph the four parts read back to.
unpack_graph(packed) ==
    [points     |-> deserialize(Layout("vec", <<>>, <<MapDataPoint_layout>>),
                                packed.points).value,
     points_map |-> <<>>,
     point_grid |-> deserialize(PointGrid_layout, packed.point_grid).value,
     ways_lines |-> <<>>,
     lines      |-> deserialize(Layout("vec", <<>>, <<MapDataLine_layout>>),
                                packed.lines).value,
     tags       |-> deserialize(ElementTags_layout, packed.tags).value]

(***************************************************************************)
(* MAP_DATA_GRAPH: the OnceLock that holds the graph of the process, and   *)
(* the callers of init, unpack and get.                                    *)
(***************************************************************************)
\* Threads that call init, unpack and get.
MaxCallers == 2

CallerIds == 1..MaxCallers

\* The loop of a reader as one function: the graph after the elements from
\* the i-th on and the Result of the loop; done is what the insert of the
\* i-th element gave.
RECURSIVE read_elements(_, _, _, _)
RECURSIVE read_elements_after(_, _, _, _)
read_elements(kind, elements, i, g) ==
    IF i > Len(elements) THEN [graph |-> g, res |-> Ok]
    ELSE read_elements_after(kind, elements, i, insert_element(g, elements[i]))

read_elements_after(kind, elements, i, done) ==
    IF ~done.res.ok /\ kind # "json"
    THEN [graph |-> done.graph, res |-> done.res]
    ELSE read_elements(kind, elements, i + 1, done.graph)

\* The insert loop of read_json, read_pbf or PbfReader::read on a new graph.
read_file(data_source) ==
    read_elements(data_source.kind,
                  reader_elements(data_source.kind, data_source.file),
                  1, MapDataGraph_new)

\* The end of a read: generate_point_hashes unless the loop gave an Err.
read_end(read) ==
    IF read.res.ok THEN generate_point_hashes(read.graph) ELSE read

\* OsmDataReader::read_data
read_data(data_source) == read_end(read_file(data_source))

DataSource(kind, file) == [kind |-> kind, file |-> file]

DataSources ==
    { DataSource("json",
                 << Element("Node", OsmNode(1, 1, 1, FALSE)),
                    Element("Node", OsmNode(2, 2, 2, FALSE)),
                    Element("Node", OsmNode(3, 3, 3, TRUE)),
                    Element("Way", OsmWay(10, <<1, 2>>, [highway |-> "primary"])),
                    Element("Way", OsmWay(11, <<2, 3>>,
                                          [highway |-> "primary_link", oneway |-> "yes"])),
                    Element("Relation",
                            OsmRelation(20, <<OsmRelationMember(10, "From", "Way"),
                                              OsmRelationMember(2, "Via", "Node"),
                                              OsmRelationMember(11, "To", "Way")>>,
                                        restriction_tags("no_left_turn"))) >>),
      DataSource("json",
                 << Element("Node", OsmNode(1, 1, 1, FALSE)),
                    Element("Node", OsmNode(2, 2, 2, FALSE)),
                    Element("Way", OsmWay(15, <<1, 2, 4>>,
                                          [highway |-> "primary", name |-> "old"])) >>),
      DataSource("pbf",
                 << Element("Node", OsmNode(1, 1, 1, FALSE)),
                    Element("Node", OsmNode(2, 2, 2, FALSE)),
                    Element("Way", OsmWay(10, <<1, 2>>, [highway |-> "primary"])) >>),
      DataSource("pbf",
                 << Element("Way", OsmWay(10, <<1, 2>>, [highway |-> "primary"])) >>) }

\* The graphs that read_data returns for the data sources.
FrozenGraphs ==
    {read.graph :
        read \in {r \in {read_data(data_source) : data_source \in DataSources} :
                     r.res.ok}}

\* What unpack reads back from pack(g), for every frozen graph g.
read_back == [g \in FrozenGraphs |-> unpack_graph(pack(g))]

\* OnceLock::new
OnceLock_new == [value |-> {}, running |-> {}, writes |-> 0, first |-> {}]

OnceLock_get_never(lock) == {}

\* OnceLock::get: the value once the lock is initialised.
OnceLock_get(lock) == lock.value

\* The end of the closure of OnceLock::get_or_init: its value goes into
\* the lock.
OnceLock_set(lock, graph) ==
    [lock EXCEPT !.value = {graph},
                 !.running = {},
                 !.writes = @ + 1,
                 !.first = IF @ = {} THEN {graph} ELSE @]

Caller_idle ==
    [pc |-> "idle", op |-> "", data_source |-> {}, packed_of |-> {},
     graph |-> {}, published |-> FALSE, ret |-> {}]

InitSlot ==
    /\ NavNotStarted
    /\ ToolsNotStarted
    /\ map_data = NotStarted
    /\ call = NotStarted
    /\ reader = NotStarted
    /\ slot = OnceLock_new
    /\ callers = [c \in CallerIds |-> Caller_idle]
    /\ query = NotStarted
    /\ cluster = NotStarted

\* MapDataGraph::init(data_source) up to the lock.
CallInit(c, data_source) ==
    /\ callers[c].pc = "idle"
    /\ callers' = [callers EXCEPT ![c] = [Caller_idle EXCEPT
                                            !.pc = "get_or_init",
                                            !.op = "init",
                                            !.data_source = {data_source}]]
    /\ UNCHANGED <<map_data, call, reader, slot, query, cluster>>
    /\ UNCHANGED <<nav_vars, tool_vars>>

\* MapDataGraph::get() up to the lock: no data source is passed on.
CallGet(c) ==
    /\ callers[c].pc = "idle"
    /\ callers' = [callers EXCEPT ![c] = [Caller_idle EXCEPT
                                            !.pc = "get_or_init",
                                            !.op = "get"]]
    /\ UNCHANGED <<map_data, call, reader, slot, query, cluster>>
    /\ UNCHANGED <<nav_vars, tool_vars>>

\* MapDataGraph::unpack(pack(g)) up to the lock: the four parts are read
\* back before the lock is touched.
CallUnpack(c, g) ==
    /\ callers[c].pc = "idle"
    /\ callers' = [callers EXCEPT ![c] = [Caller_idle EXCEPT
                                            !.pc = "get_or_init",
                                            !.op = "unpack",
                                            !.packed_of = {g},
                                            !.graph = {read_back[g]}]]
    /\ UNCHANGED <<map_data, call, reader, slot, query, cluster>>
    /\ UNCHANGED <<nav_vars, tool_vars>>

\* get_or_init on an initialised lock: the value that is there.
GetOrInitReady(c) ==
    /\ callers[c].pc = "get_or_init"
    /\ OnceLock_get(slot) # {}
    /\ callers' = [callers EXCEPT ![c].pc = "returned",
                                  ![c].ret = OnceLock_get(slot)]
    /\ UNCHANGED <<map_data, call, reader, slot, query, cluster>>
    /\ UNCHANGED <<nav_vars, tool_vars>>

\* get_or_init on an empty lock: one caller at a time runs its closure, the
\* others wait for it.
GetOrInitRun(c) ==
    /\ callers[c].pc = "get_or_init"
    /\ OnceLock_get(slot) = {}
    /\ slot.running = {}
    /\ slot' = [slot EXCEPT !.running = {c}]
    /\ callers' = [callers EXCEPT ![c].pc = "closure"]
    /\ UNCHANGED <<map_data, call, reader, query, cluster>>
    /\ UNCHANGED <<nav_vars, tool_vars>>

\* The closure of MapDataGraph::get_or_init panics, in expect or in
\* unwrap: the lock stays empty and the next caller may run its closure.
ClosurePanics(c) ==
    /\ callers' = [callers EXCEPT ![c].pc = "panicked"]
    /\ slot' = [slot EXCEPT !.running = {}]

\* The closure has gone through the elements of its data source: read is
\* the graph it has built so far and the Result of the loop.
ClosureHasRead(c, read) ==
    IF read.res.ok
    THEN /\ callers' = [callers EXCEPT ![c].pc = "read", ![c].graph = {read.graph}]
         /\ UNCHANGED slot
    ELSE ClosurePanics(c)

\* The closure of MapDataGraph::get_or_init while it reads: expect on the
\* data source, then the elements go into a graph of its own.
ClosureRead(c) ==
    /\ callers[c].pc = "closure"
    /\ callers[c].op \in {"init", "get"}
    /\ IF callers[c].data_source = {}
       THEN ClosurePanics(c)
       ELSE ClosureHasRead(c, read_file(the(callers[c].data_source)))
    /\ UNCHANGED <<map_data, call, reader, query, cluster>>
    /\ UNCHANGED <<nav_vars, tool_vars>>

\* The closure returns: read_data ends with generate_point_hashes, unpack
\* hands over the graph it read back; the lock takes the value and the
\* caller gets the reference to it.
ClosureReturn(c) ==
    /\ \/ callers[c].pc = "read"
       \/ callers[c].pc = "closure" /\ callers[c].op = "unpack"
    /\ LET graph == IF callers[c].op = "unpack" THEN the(callers[c].graph)
                    ELSE generate_point_hashes(the(callers[c].graph)).graph
       IN /\ slot' = OnceLock_set(slot, graph)
          /\ callers' = [callers EXCEPT ![c].pc = "returned",
                                        ![c].graph = {},
                                        ![c].published = TRUE,
                                        ![c].ret = slot'.value]
    /\ UNCHANGED <<map_data, call, reader, query, cluster>>
    /\ UNCHANGED <<nav_vars, tool_vars>>

\* The caller is done with the call and free for the next one.
NextCall(c) ==
    /\ callers[c].pc = "returned"
    /\ callers' = [callers EXCEPT ![c] = Caller_idle]
    /\ UNCHANGED <<map_data, call, reader, slot, query, cluster>>
    /\ UNCHANGED <<nav_vars, tool_vars>>

NextSlot ==
    \E c \in CallerIds :
        \/ \E data_source \in DataSources : CallInit(c, data_source)
        \/ CallGet(c)
        \/ \E g \in FrozenGraphs : CallUnpack(c, g)
        \/ GetOrInitReady(c)
        \/ GetOrInitRun(c)
        \/ ClosureRead(c)
        \/ ClosureReturn(c)
        \/ NextCall(c)

SpecSlot == InitSlot /\ [][NextSlot]_vars

\* C11: the lock is written at most once; the graph it holds is the first
\* one published and a graph that read_data has finished; every call of
\* init, unpack or get that returns, returns that graph, whatever the
\* order in which the callers run.
C11_SlotWrittenOnce ==
    /\ slot.writes <= 1
    /\ slot.value = slot.first
    /\ slot.value \subseteq FrozenGraphs
    /\ \A c \in CallerIds :
          callers[c].pc = "returned" =>
              /\ callers[c].ret # {}
              /\ callers[c].ret = slot.first

\* Two callers have returned: one published, the other asked to unpack a
\* different graph.
C11_Witness ==
    \E c1, c2 \in CallerIds :
        /\ c1 # c2
        /\ callers[c1].pc = "returned" /\ callers[c1].published
        /\ callers[c2].pc = "returned" /\ ~callers[c2].published
        /\ callers[c2].op = "unpack"
        /\ callers[c2].packed_of # slot.first

same_parts(a, b) ==
    /\ a.points = b.points
    /\ a.lines = b.lines
    /\ a.tags = b.tags
    /\ a.point_grid = b.point_grid

\* C19: unpack(pack(G)) returns a graph whose points, lines, tag table and
\* grid equal those of G.
C19_PackUnpackRoundTrip ==
    \A c \in CallerIds :
        (callers[c].pc = "returned" /\ callers[c].op = "unpack") =>
            same_parts(the(callers[c].ret), the(callers[c].packed_of))

\* C19 as the code has it: unpack(pack(G)) returns a graph whose points,
\* lines, tag table and grid equal those of G when the call is the one that
\* fills the lock; when a graph was published before, it returns that one.
C19_PackUnpackRoundTripAmended ==
    \A c \in CallerIds :
        (callers[c].pc = "returned" /\ callers[c].op = "unpack") =>
            IF callers[c].published
            THEN same_parts(the(callers[c].ret), the(callers[c].packed_of))
            ELSE callers[c].ret = slot.first

\* An unpack has filled the lock with a graph that has a one-way line, a
\* rule and an interned name-less tag set.
C19_Witness ==
    \E c \in CallerIds :
        /\ callers[c].pc = "returned" /\ callers[c].op = "unpack"
        /\ callers[c].published
        /\ \E i \in DOMAIN the(callers[c].ret).lines :
              the(callers[c].ret).lines[i].direction = "OneWay"
        /\ \E i \in DOMAIN the(callers[c].ret).points :
              the(callers[c].ret).points[i].rules # <<>>

(***************************************************************************)
(* get_closest_to_coords on a frozen graph.                                *)
(***************************************************************************)
\* Latitudes and longitudes of a query: 0..MaxCoord.
MaxCoord == 5

QuerySources ==
    { DataSource("json",
                 << Element("Node", OsmNode(1, 0, 0, FALSE)),
                    Element("Node", OsmNode(2, 1, 1, FALSE)),
                    Element("Node", OsmNode(3, 4, 4, TRUE)),
                    Element("Node", OsmNode(4, 5, 1, FALSE)),
                    Element("Node", OsmNode(5, 1, 5, FALSE)),
                    Element("Node", OsmNode(6, 3, 3, FALSE)),
                    Element("Way", OsmWay(30, <<1, 2>>, [highway |-> "primary"])),
                    Element("Way", OsmWay(31, <<2, 3>>,
                                          [highway |-> "motorway_link",
                                           surface |-> "gravel"])),
                    Element("Way", OsmWay(32, <<3, 4>>,
                                          [highway |-> "track",
                                           smoothness |-> "bad"])),
                    Element("Way", OsmWay(33, <<4, 5>>,
                                          [highway |-> "residential"])) >>),
      DataSource("json",
                 << Element("Node", OsmNode(1, 0, 0, FALSE)),
                    Element("Node", OsmNode(2, 5, 5, TRUE)),
                    Element("Way", OsmWay(34, <<1, 2>>, [highway |-> "tertiary"])) >>),
      DataSource("json", << Element("Node", OsmNode(1, 0, 0, FALSE)) >>) }

QueryGraphs == {read_data(data_source).graph : data_source \in QuerySources}

\* RouterRules: highway, surface and smoothness, each an Option of a map
\* from tag value to action.
RouterRules(highway, surface, smoothness) ==
    [highway |-> highway, surface |-> surface, smoothness |-> smoothness]

QueryRules ==
    { RouterRules({}, {}, {}),
      RouterRules({[motorway |-> "Avoid", primary |-> "Priority"]}, {}, {}),
      RouterRules({[motorway_link |-> "Avoid"]}, {<<>>}, {}),
      RouterRules({}, {[gravel |-> "Avoid"]}, {[bad |-> "Priority"]}),
      RouterRules({[primary |-> "Avoid", residential |-> "Avoid"]}, {},
                  {[bad |-> "Avoid"]}),
      RouterRules({[primary |-> "Avoid", motorway |-> "Avoid", track |-> "Avoid",
                    residential |-> "Avoid", tertiary |-> "Avoid"]}, {}, {}) }

\* The cells of the grid on the ring at r cells from cell.
ring_cells(grid, cell, r) ==
    {c \in DOMAIN grid :
        (IF Abs(c[1] - cell[1]) > Abs(c[2] - cell[2])
         THEN Abs(c[1] - cell[1]) ELSE Abs(c[2] - cell[2])) = r}

\* The references held by a set of cells.
RECURSIVE cells_refs(_, _)
cells_refs(grid, cells) ==
    IF cells = {} THEN <<>>
    ELSE LET c == CHOOSE x \in cells : TRUE
         IN grid[c] \o cells_refs(grid, cells \ {c})

\* PointGrid::find_closest_point_refs: the references on the first ring that
\* has any, and those on the ring after it; none when steps rings have none.
find_closest_point_refs(grid, lat, lon, steps) ==
    LET cell == grid_cell(lat, lon)
        found == {r \in 0..steps : ring_cells(grid, cell, r) # {}}
    IN IF found = {} THEN {}
       ELSE LET first == CHOOSE r \in found : \A other \in found : r <= other
            IN {cells_refs(grid, ring_cells(grid, cell, first))
                    \o cells_refs(grid, ring_cells(grid, cell, first + 1))}

\* The Avoid entries of one Option of a map, as tag:value strings.
avoid_entries(tag, actions) ==
    {tag \o ":" \o tag_value :
        tag_value \in {v \in UNION {DOMAIN m : m \in actions} :
                          \E m \in actions : m[v] = "Avoid"}}

get_avoid_rules_none(rules) == {}

\* MapDataGraph::get_avoid_rules
get_avoid_rules(rules) ==
    avoid_entries("highway", rules.highway)
        \cup avoid_entries("surface", rules.surface)
        \cup avoid_entries("smoothness", rules.smoothness)

\* ElementTagSetRef::borrow
tag_set_borrow(g, line) == g.tags.tag_sets[line.tags + 1]

\* The tag:value strings of the lines of a point, for highway, surface and
\* smoothness.
point_line_tags(g, point) ==
    UNION {{"highway:" \o hw :
               hw \in tag_value_borrow(g.tags, tag_set_borrow(g, g.lines[l + 1]).highway)}
           \cup {"surface:" \o surface :
               surface \in tag_value_borrow(g.tags,
                                            tag_set_borrow(g, g.lines[l + 1]).surface)}
           \cup {"smoothness:" \o sm :
               sm \in tag_value_borrow(g.tags,
                                       tag_set_borrow(g, g.lines[l + 1]).smoothness)} :
           l \in Range(point.lines)}

\* The filter closure of get_closest_to_coords.
closest_filter(g, p, avoid_tags, avoid_proximity_to_residential) ==
    /\ ~(avoid_proximity_to_residential /\ g.points[p + 1].residential_in_proximity)
    /\ point_line_tags(g, g.points[p + 1]) \cap avoid_tags = {}

\* Haversine.distance between a point and the coordinates of the query, on
\* a scale that keeps it a whole number: for the few degrees of the model
\* the square of the great-circle distance grows as
\* dlat^2 + cos(lat1) * cos(lat2) * dlon^2.
Haversine_distance(point, lat, lon) ==
    10000 * (point.lat - lat) * (point.lat - lat)
        + (10000 - (3 * (point.lat * point.lat + lat * lat)) \div 2)
              * (point.lon - lon) * (point.lon - lon)

\* MapDataGraph::get_closest_to_coords: the Option of the reference.
get_closest_to_coords(g, lat, lon, rules, avoid_proximity_to_residential) ==
    LET closest_points == find_closest_point_refs(g.point_grid, lat, lon, 20)
    IN IF closest_points = {} THEN {}
       ELSE LET avoid_tags == get_avoid_rules(rules)
                kept == SelectSeq(the(closest_points),
                                  LAMBDA p : closest_filter(
                                                 g, p, avoid_tags,
                                                 avoid_proximity_to_residential))
                distances == [i \in DOMAIN kept |->
                                 <<kept[i],
                                   Haversine_distance(g.points[kept[i] + 1], lat, lon)>>]
                \* sort_by is stable: the first of the sorted Vec is the
                \* first entry that has the least distance.
                first == {i \in DOMAIN distances :
                             /\ \A j \in DOMAIN distances :
                                   distances[i][2] <= distances[j][2]
                             /\ \A j \in 1..(i - 1) :
                                   distances[j][2] # distances[i][2]}
            IN {distances[i][1] : i \in first}

Query(lat, lon, rules, avoid_proximity_to_residential) ==
    [lat |-> lat, lon |-> lon, rules |-> rules,
     avoid_proximity_to_residential |-> avoid_proximity_to_residential,
     answered |-> FALSE, answer |-> {}]

InitClosest ==
    /\ NavNotStarted
    /\ ToolsNotStarted
    /\ map_data \in QueryGraphs
    /\ call = NotStarted
    /\ reader = NotStarted
    /\ slot = NotStarted
    /\ callers = NotStarted
    /\ query = Query(0, 0, RouterRules({}, {}, {}), FALSE)
    /\ cluster = NotStarted

\* One call of get_closest_to_coords on the frozen graph.
GetClosestToCoords ==
    /\ ~query.answered
    /\ query' = [query EXCEPT
                    !.answered = TRUE,
                    !.answer = get_closest_to_coords(
                                   map_data, query.lat, query.lon, query.rules,
                                   query.avoid_proximity_to_residential)]
    /\ UNCHANGED <<map_data, call, reader, slot, callers, cluster>>
    /\ UNCHANGED <<nav_vars, tool_vars>>

\* The next query, for other coordinates or under other rules.
AskAgain ==
    /\ query.answered
    /\ \E lat, lon \in 0..MaxCoord, rules \in QueryRules, residential \in BOOLEAN :
          query' = Query(lat, lon, rules, residential)
    /\ UNCHANGED <<map_data, call, reader, slot, callers, cluster>>
    /\ UNCHANGED <<nav_vars, tool_vars>>

NextClosest ==
    \/ GetClosestToCoords
    \/ AskAgain

SpecClosest == InitClosest /\ [][NextClosest]_vars

\* The values of one tag that the rules mark Avoid.
marked_avoid(actions) ==
    {v \in UNION {DOMAIN m : m \in actions} : \E m \in actions : m[v] = "Avoid"}

\* The point has a line whose highway, surface or smoothness value the
\* rules mark Avoid.
on_avoided_line(g, p, rules) ==
    \E l \in Range(g.points[p + 1].lines) :
        LET tag_set == tag_set_borrow(g, g.lines[l + 1])
        IN \/ tag_value_borrow(g.tags, tag_set.highway) \cap marked_avoid(rules.highway) # {}
           \/ tag_value_borrow(g.tags, tag_set.surface) \cap marked_avoid(rules.surface) # {}
           \/ tag_value_borrow(g.tags, tag_set.smoothness)
                  \cap marked_avoid(rules.smoothness) # {}

\* The candidates of the grid that the filters of the query let through.
survivors(g, q) ==
    {p \in UNION {Range(refs) :
                     refs \in find_closest_point_refs(g.point_grid, q.lat, q.lon, 20)} :
        /\ ~on_avoided_line(g, p, q.rules)
        /\ ~(q.avoid_proximity_to_residential
                /\ g.points[p + 1].residential_in_proximity)}

\* C18: the answer of get_closest_to_coords is one of the grid candidates
\* that survive the filters, none of them is nearer to the coordinates of
\* the query, it has no line with a highway, surface or smoothness value
\* marked Avoid and is not flagged residential_in_proximity when the query
\* avoids that; the answer is none when no candidate survives.
C18_ClosestSurvivor ==
    query.answered =>
        IF survivors(map_data, query) = {}
        THEN query.answer = {}
        ELSE \E p \in survivors(map_data, query) :
                /\ query.answer = {p}
                /\ \A other \in survivors(map_data, query) :
                      Haversine_distance(map_data.points[p + 1], query.lat, query.lon)
                          <= Haversine_distance(map_data.points[other + 1],
                                                query.lat, query.lon)

\* The nearest candidate of the grid was dropped by a filter and a farther
\* one is the answer.
C18_Witness ==
    /\ query.answered
    /\ query.answer # {}
    /\ \E refs \in find_closest_point_refs(map_data.point_grid, query.lat, query.lon, 20) :
          \E p \in Range(refs) :
              /\ p \notin survivors(map_data, query)
              /\ Haversine_distance(map_data.points[p + 1], query.lat, query.lon)
                    < Haversine_distance(map_data.points[the(query.answer) + 1],
                                         query.lat, query.lon)

(***************************************************************************)
(* Generator::generate_routes after the navigators: the Stuck results are  *)
(* dropped, the routes are clustered, and the best of every cluster and    *)
(* the best of the noise are returned.                                     *)
(***************************************************************************)
\* Itineraries of one request.
MaxRoutes == 4

\* What a navigator can come back with: the result, and for Finished and
\* Stopped the score and the number of segments of the route.
NavigationResults ==
    { [kind |-> "Stuck", score |-> 0, segment_count |-> 0],
      [kind |-> "Finished", score |-> 1, segment_count |-> 3],
      [kind |-> "Finished", score |-> 2, segment_count |-> 5],
      [kind |-> "Stopped", score |-> 3, segment_count |-> 4],
      [kind |-> "Finished", score |-> 0, segment_count |-> 0] }

\* Labels HDBSCAN can give: -1 for noise, else the number of a cluster.
Labels == {-1, 0, 1}

\* The routes handed to the clustering: the results without the Stuck
\* ones, each with the number of its itinerary.
kept_routes(results) ==
    filter_map_routes([n \in DOMAIN results |-> results[n].kind],
                      [n \in DOMAIN results |->
                          [id |-> n, score |-> results[n].score,
                           segment_count |-> results[n].segment_count]],
                      1)

\* Clustering::generate: only the routes that have a segment are
\* approximated and clustered; hdbscan holds the labels HDBSCAN gives them.
Clustering_generate(rts, hdbscan) ==
    LET approximated == SelectSeq(rts, LAMBDA r : r.segment_count > 0)
    IN [approximated_routes |-> [i \in DOMAIN approximated |-> approximated[i].id],
        labels              |-> SubSeq(hdbscan, 1, Len(approximated))]

is_better_reversed(current_best, new) == current_best.score > new.score

\* The test that lets a route take the place of the best of its cluster.
is_better(current_best, new) == current_best.score < new.score

\* The for_each of generate_routes from the idx-th route on (idx from 0):
\* cluster_best maps a label to the best route so far, noise holds the
\* routes of label -1 in the order of the routes.
RECURSIVE select_routes(_, _, _, _, _)
select_routes(rts, clustering, idx, cluster_best, noise) ==
    IF idx >= Len(rts) THEN [cluster_best |-> cluster_best, noise |-> noise]
    ELSE LET label == clustering.labels[idx + 1]
             route_with_stats == [id      |-> rts[idx + 1].id,
                                  score   |-> rts[idx + 1].score,
                                  cluster |-> label]
         IN IF label # -1
            THEN IF label \in DOMAIN cluster_best
                 THEN IF is_better(cluster_best[label], route_with_stats)
                      THEN select_routes(rts, clustering, idx + 1,
                                         map_insert(cluster_best, label,
                                                    route_with_stats),
                                         noise)
                      ELSE select_routes(rts, clustering, idx + 1, cluster_best, noise)
                 ELSE select_routes(rts, clustering, idx + 1,
                                    map_insert(cluster_best, label, route_with_stats),
                                    noise)
            ELSE select_routes(rts, clustering, idx + 1, cluster_best,
                               Append(noise, route_with_stats))

\* noise.sort_by(|a, b| b.stats.score.total_cmp(&a.stats.score)): a stable
\* sort, highest score first.
RECURSIVE sort_by_score_desc(_)
sort_by_score_desc(noise) ==
    IF noise = <<>> THEN <<>>
    ELSE LET i == CHOOSE k \in DOMAIN noise :
                      /\ \A j \in DOMAIN noise : noise[j].score <= noise[k].score
                      /\ \A j \in 1..(k - 1) : noise[j].score < noise[k].score
         IN <<noise[i]>>
                \o sort_by_score_desc(SubSeq(noise, 1, i - 1)
                                          \o SubSeq(noise, i + 1, Len(noise)))

\* cluster_best.into_iter().map(|el| el.1).collect()
RECURSIVE into_values(_)
into_values(m) ==
    IF DOMAIN m = {} THEN <<>>
    ELSE LET k == CHOOSE x \in DOMAIN m : TRUE
         IN <<m[k]>> \o into_values([x \in DOMAIN m \ {k} |-> m[x]])

\* The end of generate_routes: the best of the clusters, then the first
\* three of the sorted noise at most.
best_routes_of(selected) ==
    into_values(selected.cluster_best)
        \o SubSeq(sort_by_score_desc(selected.noise), 1,
                  IF Len(selected.noise) < 3 THEN Len(selected.noise) ELSE 3)

\* Generator::generate_routes from the results of the navigators on.  The
\* for_each indexes approximated_routes and labels with the index of the
\* route: with a route the clustering left out it runs past their end.
generate_routes(results, hdbscan) ==
    LET rts == kept_routes(results)
        clustering == Clustering_generate(rts, hdbscan)
    IN IF Len(clustering.labels) < Len(rts)
       THEN [status |-> "panicked", routes |-> rts, labels |-> clustering.labels,
             best_routes |-> <<>>]
       ELSE [status |-> "returned", routes |-> rts, labels |-> clustering.labels,
             best_routes |-> best_routes_of(
                                 select_routes(rts, clustering, 0, <<>>, <<>>))]

InitCluster ==
    /\ NavNotStarted
    /\ ToolsNotStarted
    /\ map_data = NotStarted
    /\ call = NotStarted
    /\ reader = NotStarted
    /\ slot = NotStarted
    /\ callers = NotStarted
    /\ query = NotStarted
    /\ cluster = [status |-> "navigating", results |-> <<>>, routes |-> <<>>,
                  labels |-> <<>>, best_routes |-> <<>>]

\* The navigator of the next itinerary comes back.
NavigatorReturns ==
    /\ cluster.status = "navigating"
    /\ Len(cluster.results) < MaxRoutes
    /\ \E nav_route \in NavigationResults :
          cluster' = [cluster EXCEPT !.results = Append(@, nav_route)]
    /\ UNCHANGED <<map_data, call, reader, slot, callers, query>>
    /\ UNCHANGED <<nav_vars, tool_vars>>

\* All navigators are back: the rest of generate_routes, for any labels
\* HDBSCAN may give.
SelectRoutes ==
    /\ cluster.status = "navigating"
    /\ \E hdbscan \in seqs_up_to(Labels, Len(cluster.results)) :
          /\ Len(hdbscan) = Len(cluster.results)
          /\ cluster' = [results |-> cluster.results]
                            @@ generate_routes(cluster.results, hdbscan)
    /\ UNCHANGED <<map_data, call, reader, slot, callers, query>>
    /\ UNCHANGED <<nav_vars, tool_vars>>

NextCluster ==
    \/ NavigatorReturns
    \/ SelectRoutes

SpecCluster == InitCluster /\ [][NextCluster]_vars

\* The routes of cluster label among the routes that were clustered.
routes_of_label(c, label) ==
    {i \in DOMAIN c.routes : c.labels[i] = label}

\* C12: what generate_routes returns is, for every cluster label other
\* than -1, one route of that cluster and one of the highest score in it,
\* and of the n noise routes min(3, n) that no noise route left out
\* outscores; nothing else, no route twice, and never the route of a Stuck
\* navigator, while Finished and Stopped routes are among the candidates.
C12_BestPerClusterAndNoise ==
    cluster.status = "returned" =>
        LET out == cluster.best_routes
            candidates == {n \in DOMAIN cluster.results :
                              cluster.results[n].kind \in {"Finished", "Stopped"}}
            noise == routes_of_label(cluster, -1)
            out_of(label) == {k \in DOMAIN out : out[k].cluster = label}
        IN /\ {cluster.routes[i].id : i \in DOMAIN cluster.routes} = candidates
           /\ \A k \in DOMAIN out :
                 /\ out[k].id \in candidates
                 /\ cluster.results[out[k].id].kind # "Stuck"
                 /\ \A j \in DOMAIN out : out[j].id = out[k].id => j = k
                 /\ \E i \in routes_of_label(cluster, out[k].cluster) :
                       /\ cluster.routes[i].id = out[k].id
                       /\ cluster.routes[i].score = out[k].score
           /\ \A label \in Range(cluster.labels) \ {-1} :
                 /\ Cardinality(out_of(label)) = 1
                 /\ \A k \in out_of(label), i \in routes_of_label(cluster, label) :
                       cluster.routes[i].score <= out[k].score
           /\ Cardinality(out_of(-1))
                 = (IF Cardinality(noise) < 3 THEN Cardinality(noise) ELSE 3)
           /\ \A k \in out_of(-1), i \in noise :
                 (\A j \in out_of(-1) : out[j].id # cluster.routes[i].id)
                     => cluster.routes[i].score <= out[k].score

\* A Stuck navigator, a cluster of a Finished and a Stopped route of
\* different scores, and a noise route: the better of the cluster and the
\* noise route are returned.
C12_Witness ==
    /\ cluster.status = "returned"
    /\ \E n \in DOMAIN cluster.results : cluster.results[n].kind = "Stuck"
    /\ \E i, j \in DOMAIN cluster.routes :
          /\ cluster.labels[i] = cluster.labels[j] /\ cluster.labels[i] # -1
          /\ cluster.routes[i].score < cluster.routes[j].score
          /\ cluster.results[cluster.routes[j].id].kind = "Stopped"
          /\ \E k \in DOMAIN cluster.best_routes :
                cluster.best_routes[k].id = cluster.routes[j].id
    /\ \E k \in DOMAIN cluster.best_routes : cluster.best_routes[k].cluster = -1

(***************************************************************************)
(* Properties of the graph build, continued.                               *)
(***************************************************************************)
\* C27: a call of insert_way that returns MissingPoint leaves the graph as
\* it was before the call: no line of the way in the line table, in the
\* incidence list of a point or in the map from ways to lines.
C27_MissingPointWaySkipped ==
    [][(/\ call'.n # call.n
        /\ call'.op = "insert_way"
        /\ ~call'.res.ok
        /\ call'.res.err = "MissingPoint")
          => map_data' = map_data]_vars

(***************************************************************************)
(* Properties of the clustering.                                           *)
(***************************************************************************)
\* C29: Clustering::generate gives one label and one approximated route
\* for every route handed to it, so that generate_routes never indexes
\* them out of range and comes back, also with a kept route that has no
\* segments.
C29_LabelsAlignedWithRoutes ==
    cluster.status # "navigating" =>
        /\ cluster.status = "returned"
        /\ Len(cluster.labels) = Len(cluster.routes)

(***************************************************************************)
(* The cache of the packed graph (map_data_cache.rs).  The cache directory *)
(* is absent, or present with files: a function from file names to their   *)
(* contents.  A file system call can fail; which one does is an input of   *)
(* the call.                                                               *)
(***************************************************************************)
CacheNames == <<"points", "point_grid", "lines", "tags">>

\* read_cache_file and write_cache_file name the file of a part.
cache_file(name) == name \o ".cache"

CacheFiles == {cache_file(CacheNames[i]) : i \in 1..Len(CacheNames)}

\* The contents a file can hold.
MaxBlob == 2
Blobs == 1..MaxBlob

\* A MapDataGraphPacked: the four serialized parts.
PackedGraphs ==
    {[points |-> b, point_grid |-> b, lines |-> b, tags |-> b] : b \in Blobs}

DirAbsent == [exists |-> FALSE, files |-> <<>>]
DirWith(files) == [exists |-> TRUE, files |-> files]

\* What the cache directory can hold before a call: nothing, files of
\* another program, some or all of the four files.
DirStates ==
    {DirAbsent, DirWith(<<>>)}
    \cup {DirWith([f \in {"old.cache"} |-> 1])}
    \cup {DirWith([f \in CacheFiles \ {"tags.cache"} |-> 1])}
    \cup {DirWith([f \in CacheFiles |-> b]) : b \in Blobs}
    \cup {DirWith([f \in CacheFiles \cup {"old.cache"} |-> 1])}

\* The file system calls of read_cache and write_cache that can fail, and
\* the files the four parallel writes have written when one of them failed.
IoOutcomes ==
    {[fails |-> step, written |-> {}] :
        step \in {"none", "try_exists", "remove_dir_all", "create_dir_all"}}
    \cup {[fails |-> "write", written |-> w] :
            w \in (SUBSET CacheFiles) \ {CacheFiles}}

MapDataCache_init(cache_dir) ==
    [cache_dir |-> cache_dir, write_to_cache |-> cache_dir # {}]

\* read_cache: the instance after the call and the result.
read_cache_flag_after_read(self, dir, io) ==
    IF self.cache_dir = {} THEN [self |-> self, res |-> "Ok(None)"]
    ELSE IF io.fails = "try_exists" THEN [self |-> self, res |-> "FileError"]
    ELSE IF ~dir.exists THEN [self |-> self, res |-> "Ok(None)"]
    ELSE IF \E f \in CacheFiles : f \notin DOMAIN dir.files
         THEN [self |-> self, res |-> "FileError"]
    ELSE [self |-> [self EXCEPT !.write_to_cache = FALSE],
          res |-> "Ok(Some)"]

read_cache(self, dir, io) ==
    IF self.cache_dir = {} THEN [self |-> self, res |-> "Ok(None)"]
    ELSE IF io.fails = "try_exists" THEN [self |-> self, res |-> "FileError"]
    ELSE IF ~dir.exists THEN [self |-> self, res |-> "Ok(None)"]
    ELSE LET found == [self EXCEPT !.write_to_cache = FALSE]
         IN  IF \E f \in CacheFiles : f \notin DOMAIN dir.files
             THEN [self |-> found, res |-> "FileError"]
             ELSE [self |-> found, res |-> "Ok(Some)"]

\* write_cache: the directory after the call and the result.
write_cache_keep_dir(self, dir, packed, io) ==
    IF ~self.write_to_cache \/ self.cache_dir = {}
    THEN [dir |-> dir, res |-> "Ok"]
    ELSE IF io.fails \in {"try_exists", "create_dir_all"}
    THEN [dir |-> dir, res |-> "FileError"]
    ELSE LET done == IF io.fails = "write" THEN io.written ELSE CacheFiles
             new == [f \in done |->
                       packed[CHOOSE n \in DOMAIN packed : cache_file(n) = f]]
         IN  [dir |-> DirWith(new @@ dir.files),
              res |-> IF io.fails = "write" THEN "FileError" ELSE "Ok"]

write_cache(self, dir, packed, io) ==
    IF ~self.write_to_cache \/ self.cache_dir = {}
    THEN [dir |-> dir, res |-> "Ok"]
    ELSE IF io.fails = "try_exists" THEN [dir |-> dir, res |-> "FileError"]
    ELSE IF dir.exists /\ io.fails = "remove_dir_all"
    THEN [dir |-> dir, res |-> "FileError"]
    ELSE IF io.fails = "create_dir_all"
    THEN [dir |-> DirAbsent, res |-> "FileError"]
    ELSE LET done == IF io.fails = "write" THEN io.written ELSE CacheFiles
             new == [f \in done |->
                       packed[CHOOSE n \in DOMAIN packed : cache_file(n) = f]]
         IN  [dir |-> DirWith(new),
              res |-> IF io.fails = "write" THEN "FileError" ELSE "Ok"]

\* The state of the cache: the instance, the directory, the last call with
\* its argument and result, and two history fields: whether a read_cache of
\* the instance has found the directory present, and whether the last call
\* went past the test of write_to_cache.
CacheState(self, dir, op, packed, res, found, went) ==
    [self |-> self, dir |-> dir, op |-> op, packed |-> packed, res |-> res,
     found |-> found, went |-> went]

InitCache ==
    /\ \E cache_dir \in {{}, {"cache"}}, dir \in DirStates :
        cache = CacheState(MapDataCache_init(cache_dir), dir, "init", {},
                           "Ok", FALSE, FALSE)
    /\ NavNotStarted
    /\ MapNotStarted
    /\ trip = NotStarted
    /\ weighing = NotStarted

ReadCache ==
    /\ \E io \in {o \in IoOutcomes : o.fails \in {"none", "try_exists"}} :
        LET r == read_cache(cache.self, cache.dir, io)
        IN  cache' = CacheState(r.self, cache.dir, "read_cache", {}, r.res,
                        cache.found \/ (/\ cache.self.cache_dir # {}
                                        /\ io.fails = "none"
                                        /\ cache.dir.exists),
                        FALSE)
    /\ UNCHANGED <<nav_vars, map_vars, trip, weighing>>

WriteCache ==
    /\ \E io \in IoOutcomes, packed \in PackedGraphs :
        LET w == write_cache(cache.self, cache.dir, packed, io)
        IN  cache' = CacheState(cache.self, w.dir, "write_cache", {packed},
                        w.res, cache.found,
                        cache.self.write_to_cache /\ cache.self.cache_dir # {})
    /\ UNCHANGED <<nav_vars, map_vars, trip, weighing>>

\* Another program fills, empties or removes the cache directory between
\* two calls.
DirChanges ==
    /\ \E dir \in DirStates :
        /\ dir # cache.dir
        /\ cache' = [cache EXCEPT !.dir = dir, !.op = "none"]
    /\ UNCHANGED <<nav_vars, map_vars, trip, weighing>>

NextCache == ReadCache \/ WriteCache \/ DirChanges

SpecCache == InitCache /\ [][NextCache]_vars

(* Properties of the cache. *)
\* C21: after a call of write_cache that writes (a cache directory is
\* configured and writing is enabled) and returns Ok, the cache directory
\* holds the four files points.cache, point_grid.cache, lines.cache and
\* tags.cache and no other file, whatever it held before the call.
C21_ExactlyFourFiles ==
    (cache.op = "write_cache" /\ cache.went /\ cache.res = "Ok") =>
        /\ cache.dir.exists
        /\ DOMAIN cache.dir.files =
             {"points.cache", "point_grid.cache", "lines.cache", "tags.cache"}

\* A writing call has returned Ok on a directory that held another file.
C21_Witness ==
    /\ cache.op = "write_cache" /\ cache.went /\ cache.res = "Ok"
    /\ cache.dir.exists
    /\ \A f \in CacheFiles :
        f \in DOMAIN cache.dir.files /\ cache.dir.files[f] = 2

\* C28: on one MapDataCache, a call of write_cache goes on to write the
\* four files exactly when a cache directory is configured and no earlier
\* read_cache of the instance has found the directory present; otherwise,
\* also when that read_cache failed with FileError, the call returns Ok and
\* leaves the directory as it was.
C28_WritesUnlessReadFoundDir ==
    [][cache'.op = "write_cache" =>
        LET writes == cache.self.cache_dir # {} /\ ~cache.found
        IN  /\ cache'.went <=> writes
            /\ (writes /\ cache'.res = "Ok") =>
                  \A f \in CacheFiles :
                      /\ f \in DOMAIN cache'.dir.files
                      /\ \E packed \in cache'.packed :
                          \E n \in DOMAIN packed :
                              /\ cache_file(n) = f
                              /\ cache'.dir.files[f] = packed[n]
            /\ ~writes => cache'.res = "Ok" /\ cache'.dir = cache.dir]_vars

\* A write_cache has been a no-op after a read_cache that found the
\* directory and failed with FileError.
C28_Witness ==
    /\ cache.op = "write_cache"
    /\ cache.found
    /\ ~cache.went
    /\ cache.dir.exists
    /\ "tags.cache" \notin DOMAIN cache.dir.files

(***************************************************************************)
(* weight_heading (weights.rs).  Bearings are whole degrees in -179..180,  *)
(* the range of haversine_bearing; the walk projected from the fork choice *)
(* is given by its result.                                                 *)
(***************************************************************************)
Bearings == {-179, -135, -90, -45, -1, 0, 1, 45, 90, 135, 179, 180}

\* The results of walker.move_forward_to_next_fork().
Projections == {"Err", "DeadEnd", "Finish", "Fork"}

\* f64::round of n / d for n >= 0 and d > 0: half away from zero.
round_div(n, d) == (2 * n + d) \div (2 * d)

\* `as u8` of a float that is not negative: saturating.
as_u8(x) == IF x > 255 THEN 255 ELSE x

weight_heading(projection, fork_bearing, next_bearing) ==
    IF projection \in {"Err", "DeadEnd"} THEN DoNotUse
    ELSE IF projection = "Finish" THEN 255
    ELSE LET degree_offset_from_next == Abs(fork_bearing - next_bearing)
         IN  255 - as_u8(round_div(degree_offset_from_next * 255, 180))

InitWeigh ==
    /\ weighing = [op |-> "none"]
    /\ NavNotStarted
    /\ MapNotStarted
    /\ cache = NotStarted
    /\ trip = NotStarted

WeightHeading ==
    /\ \E projection \in Projections, fork_bearing \in Bearings,
          next_bearing \in Bearings :
        weighing' = [op |-> "weight_heading", projection |-> projection,
                     fork_bearing |-> fork_bearing,
                     next_bearing |-> next_bearing,
                     res |-> weight_heading(projection, fork_bearing,
                                            next_bearing)]
    /\ UNCHANGED <<nav_vars, map_vars, cache, trip>>

NextWeigh == WeightHeading

SpecWeigh == InitWeigh /\ [][NextWeigh]_vars

\* The angle between two bearings: between 0 and 180 degrees.
angular_offset(a, b) ==
    LET d == Abs(a - b) IN IF d > 180 THEN 360 - d ELSE d

(* Properties of weight_heading. *)
\* C26: weight_heading gives DoNotUse for a projected walk that ends in a
\* dead end, 255 for one that ends at the finish, and otherwise
\* 255 - round(255 * D / 180) with D the angle, between 0 and 180 degrees,
\* between the bearing of the approach line and the bearing to
\* itinerary.next; the weight lies in 0..255.
C26_HeadingWeight ==
    weighing.op = "weight_heading" =>
        /\ weighing.projection = "DeadEnd" => weighing.res = DoNotUse
        /\ weighing.projection = "Finish" => weighing.res = 255
        /\ weighing.projection = "Fork" =>
            /\ weighing.res \in 0..255
            /\ weighing.res =
                 255 - round_div(255 * angular_offset(weighing.fork_bearing,
                                                      weighing.next_bearing),
                                 180)

(* Properties of the navigator, continued. *)
\* C23: at a fork where several choices share the greatest summed weight the
\* navigator takes the one that comes first in the fork's choice order.
C23_TieTakesFirstInOrder ==
    \A n \in navs :
        log[n].move = "Fork" =>
            \A k \in DOMAIN log[n].choices :
                LET c == log[n].choices[k].end_point
                IN  (/\ c \in DOMAIN log[n].weights
                     /\ \A d \in DOMAIN log[n].weights :
                            log[n].weights[d] <= log[n].weights[c]
                     /\ \A j \in 1..(k - 1) :
                            LET b == log[n].choices[j].end_point
                            IN  b \in DOMAIN log[n].weights =>
                                  log[n].weights[b] < log[n].weights[c])
                    => log[n].chosen = c

\* The route the walker has after its move forward in the iteration that
\* navigator n goes through next.
route_moved_forward(n) ==
    move_forward_to_next_fork(lines, itinerary[n].start, itinerary[n].finish,
                              route[n], next_fork_choice_point[n],
                              MaxWalk).route

\* C24: an iteration in which the navigator backtracks, at a fork without a
\* choice left or at a dead end, from a route that has no junction before
\* its last segment, returns Stuck.
C24_BacktrackWithoutJunctionIsStuck ==
    [][\A n \in navs :
        (/\ log'[n] # log[n] \/ loop_counter'[n] # loop_counter[n]
         /\ log'[n].move \in {"ForkBack", "DeadEnd"}
         /\ get_junction_before_last_segment(lines, route_moved_forward(n)) = 0)
            => result'[n] = "Stuck"]_vars

\* C25: a fork choice is taken only if its summed weight is positive.
C25_TakenChoiceHasPositiveWeight ==
    \A n \in navs :
        (log[n].move = "Fork" /\ log[n].chosen # None) =>
            log[n].weights[log[n].chosen] > 0

(***************************************************************************)
(* Generator::generate_itineraries for a round trip (generator.rs).  A     *)
(* coordinate is given by its bearing and distance from the start;         *)
(* ratios are in hundredths.                                               *)
(***************************************************************************)
ROUND_TRIP_TIP_DISTANCE_RATIOS == <<50, 45, 40, 35, 30, 25, 20, 15, 10, 5>>
ROUND_TRIP_SIDES_DISTANCE_RATIOS == <<90, 70, 50, 20, 10>>
ROUND_TRIP_BEARING_VARIATION == <<-20, -10, 0, 10, 20>>

\* Haversine::destination(start_geo, bearing, distance)
Haversine_destination(bearing, distance) ==
    [bearing |-> bearing, distance |-> distance]

\* MapDataGraph::get().get_closest_to_coords for a coordinate around the
\* start: the point next to it, none where the map has no point; the map
\* is given by the bearings without a point.
closest_around_start(geo, empty_bearings) ==
    IF geo.bearing \in empty_bearings THEN {} ELSE {[near |-> geo]}

\* The closure of the filter_map: the itinerary of one combination, none
\* when a lookup returns None.
round_trip_itinerary(start, finish, round_trip, side_left_ratio, tip_ratio, bearing_variation, empty_bearings) ==
    LET bearing == round_trip[1]
        tot_dist == round_trip[2]
        tip_geo == Haversine_destination(bearing + bearing_variation,
                                         (tot_dist * tip_ratio) \div 100)
        tot_dist_1 == tot_dist - (tot_dist * tip_ratio) \div 100
        tip_point == closest_around_start(tip_geo, empty_bearings)
        side_left_geo == Haversine_destination(
                             bearing + bearing_variation - 45,
                             (tot_dist_1 * side_left_ratio) \div 100)
        tot_dist_2 == tot_dist_1 - (tot_dist_1 * side_left_ratio) \div 100
        side_left_point == closest_around_start(side_left_geo, empty_bearings)
        side_right_geo == Haversine_destination(
                              bearing + bearing_variation - 45, tot_dist_2)
        side_right_point == closest_around_start(side_right_geo,
                                                 empty_bearings)
    IN  IF tip_point = {} \/ side_left_point = {} \/ side_right_point = {}
        THEN <<>>
        ELSE << Itinerary_new(start, finish,
                              <<the(side_left_point), the(tip_point),
                                the(side_right_point)>>, 5) >>

\* flatten of a Vec of Vecs.
RECURSIVE flatten(_)
flatten(vecs) == IF Len(vecs) = 0 THEN <<>> ELSE Head(vecs) \o flatten(Tail(vecs))

\* generate_itineraries, the round-trip branch.
generate_itineraries(start, finish, round_trip, empty_bearings) ==
    flatten([s \in 1..Len(ROUND_TRIP_SIDES_DISTANCE_RATIOS) |->
      flatten([t \in 1..Len(ROUND_TRIP_TIP_DISTANCE_RATIOS) |->
        flatten([v \in 1..Len(ROUND_TRIP_BEARING_VARIATION) |->
          round_trip_itinerary(start, finish, round_trip,
                               ROUND_TRIP_SIDES_DISTANCE_RATIOS[s],
                               ROUND_TRIP_TIP_DISTANCE_RATIOS[t],
                               ROUND_TRIP_BEARING_VARIATION[v],
                               empty_bearings)])])])

\* The round trips asked for and the maps they are asked on.
RoundTrips == {<<b, d>> : b \in {0, 45, 90, 135, 180, 225, 270, 315},
                          d \in {10000, 20000}}

EmptyBearings == {{}} \cup {{b - 45, b + 100} : b \in {0, 90, 180, 270}}
                      \cup {{b} : b \in {10, 100, 190}}

InitTrip ==
    /\ trip = [op |-> "none"]
    /\ NavNotStarted
    /\ MapNotStarted
    /\ cache = NotStarted
    /\ weighing = NotStarted

\* generate_routes calls generate_itineraries once.
GenerateItineraries ==
    /\ trip.op = "none"
    /\ \E start \in {1, 2}, round_trip \in RoundTrips,
          empty_bearings \in EmptyBearings :
        trip' = [op |-> "generate_itineraries", start |-> start,
                 finish |-> start, round_trip |-> round_trip,
                 empty_bearings |-> empty_bearings,
                 itineraries |-> generate_itineraries(start, start, round_trip,
                                                      empty_bearings)]
    /\ UNCHANGED <<nav_vars, map_vars, cache, weighing>>

NextTrip == GenerateItineraries

SpecTrip == InitTrip /\ [][NextTrip]_vars

(* Properties of the round-trip itineraries. *)
\* C22: every round-trip itinerary starts and finishes at the start and
\* finish of the request and has three waypoints: the tip at the bearing
\* plus a variation and two side waypoints, one 45 degrees to the left of
\* the tip's bearing and one 45 degrees to the right; a combination with a
\* lookup that finds no point gives no itinerary.
C22_RoundTripWaypoints ==
    trip.op = "generate_itineraries" =>
        \A i \in DOMAIN trip.itineraries :
            LET it == trip.itineraries[i]
            IN  /\ it.start = trip.start
                /\ it.finish = trip.finish
                /\ Len(it.waypoints) = 3
                /\ \E v \in DOMAIN ROUND_TRIP_BEARING_VARIATION :
                    LET tip == trip.round_trip[1]
                                 + ROUND_TRIP_BEARING_VARIATION[v]
                        at(k) == it.waypoints[k].near.bearing
                    IN  /\ \E k \in 1..3 : at(k) = tip
                        /\ \E k \in 1..3 : at(k) = tip - 45
                        /\ \E k \in 1..3 : at(k) = tip + 45
                /\ \A k \in 1..3 :
                    it.waypoints[k].near.bearing \notin trip.empty_bearings

(* Properties of the itinerary, continued. *)
\* C30: in an itinerary whose start is its finish, with waypoints, next
\* goes through the waypoints in the order of the list: whenever next
\* changes, it goes from a waypoint to the target that follows it, so that
\* it is the finish only after the last waypoint.
C30_RoundTripNextInOrder ==
    [][\A n \in navs :
        LET it == itinerary[n]
        IN  (/\ it.start = it.finish
             /\ Len(it.waypoints) > 0
             /\ itinerary'[n].next # it.next)
                => \E i \in DOMAIN it.waypoints :
                      /\ it.waypoints[i] = it.next
                      /\ itinerary'[n].next = targets(it)[i + 1]]_vars

====
